---------------------------- MODULE Spec2Model ----------------------------
(***************************************************************************)
(* A model of emby-proxy-cli: the layered value resolvers of               *)
(* src/modules/env.rs, the start-up parsing of --env entries, and the      *)
(* commands of src/modules/commands.rs (setup, issue-cert,                 *)
(* write-nginx-default, write-proxy-config).                               *)
(*                                                                         *)
(* Text is modelled as a sequence of chunks.  The chunk " " is one         *)
(* whitespace character; every other chunk is a non-empty run of           *)
(* non-whitespace characters that the program never looks into.            *)
(***************************************************************************)
EXTENDS Naturals, Sequences, FiniteSets, TLC

VARIABLES
    env_overrides,  \* the OverrideMap built from --env (main.rs:9)
    process_env,    \* the process environment read by env::var
    rs,             \* one call of a resolver of env.rs: inputs and result
    cli,            \* start-up: parsing of the --env entries and dispatch
    args,           \* the flags of the command being run
    st,             \* the running command: position, locals, effects
    tp              \* a timed prompt: reader thread, channel and timer

vars == <<env_overrides, process_env, rs, cli, args, st, tp>>

----------------------------------------------------------------------------
(* Bounds *)

\* longest text drawn for a value, in chunks
MaxLen == 2
\* most values given to a repeated flag (--resolver)
MaxCli == 2

----------------------------------------------------------------------------
(* Text *)

Chars == {"a", " "}

RECURSIVE SeqsUpTo(_, _)
SeqsUpTo(S, n) ==
    IF n = 0 THEN {<<>>}
    ELSE LET shorter == SeqsUpTo(S, n - 1)
         IN  shorter \cup {Append(s, c) : s \in shorter, c \in S}

Strs == SeqsUpTo(Chars, MaxLen)

None == <<>>
Some(v) == <<v>>
IsSome(o) == o # <<>>
Unwrap(o) == o[1]
Opt(S) == {None} \cup {Some(v) : v \in S}

RECURSIVE TrimStart(_)
TrimStart(s) ==
    IF s # <<>> /\ Head(s) = " " THEN TrimStart(Tail(s)) ELSE s

RECURSIVE TrimEnd(_)
TrimEnd(s) ==
    IF s # <<>> /\ s[Len(s)] = " " THEN TrimEnd(SubSeq(s, 1, Len(s) - 1)) ELSE s

\* str::trim
Trim(s) == TrimEnd(TrimStart(s))

\* value.trim().is_empty()
IsBlank(s) == Trim(s) = <<>>

\* [String]::join(" ")
RECURSIVE Join(_)
Join(vs) ==
    IF vs = <<>> THEN <<>>
    ELSE IF Len(vs) = 1 THEN vs[1]
    ELSE vs[1] \o <<" ">> \o Join(Tail(vs))

----------------------------------------------------------------------------
(* Results and prompt input *)

Ok(v, n) == [ok |-> TRUE, val |-> v, err |-> "", prompts |-> n]
Err(e, n) == [ok |-> FALSE, val |-> <<>>, err |-> e, prompts |-> n]

\* What one read of the input stream yields: a line (without its line
\* break), an I/O error, or, for a timed read, nothing within the timeout.
Line(s) == [kind |-> "line", line |-> s]
ReadError == [kind |-> "error", line |-> <<>>]
TimedOut == [kind |-> "timeout", line |-> <<>>]

RESOLVER_TIMEOUT_SECS == 10
RESOLVER_CLOUDFLARE ==
    <<"1.1.1.1", " ", "1.0.0.1", " ", "[2606:4700:4700::1111]", " ",
      "[2606:4700:4700::1064]">>
RESOLVER_TENCENT == <<"119.29.29.29", " ", "182.254.116.116">>
RESOLVER_ALI == <<"223.5.5.5", " ", "223.6.6.6">>
RESOLVER_GOOGLE == <<"8.8.8.8", " ", "8.8.4.4">>

\* prompt_value with a blank line rejected
prompt_value_blank_rejected(read, sensitive) ==
    IF read.kind # "line" THEN Err("Prompt failed", 1)
    ELSE IF IsBlank(read.line) THEN Err("value required", 1)
    ELSE Ok(IF sensitive THEN read.line ELSE Trim(read.line), 1)

\* prompt_value: one blocking read; the plain prompt trims the line, the
\* no-echo prompt (rpassword) returns it as typed.
prompt_value(read, sensitive) ==
    IF read.kind # "line" THEN Err("Prompt failed", 1)
    ELSE Ok(IF sensitive THEN read.line ELSE Trim(read.line), 1)

\* env_overrides.get(key) with a non-blank value
OverrideOf(ov, key) ==
    IF key \in DOMAIN ov /\ IsSome(ov[key]) /\ ~IsBlank(Unwrap(ov[key]))
    THEN ov[key] ELSE None

\* env::var(key) with a non-blank value
EnvVarOf(key) ==
    IF key \in DOMAIN process_env /\ IsSome(process_env[key])
       /\ ~IsBlank(Unwrap(process_env[key]))
    THEN process_env[key] ELSE None

----------------------------------------------------------------------------
(* The resolvers of env.rs *)

\* resolve_value with a blank explicit value treated as absent
resolve_value_blank_cli_skipped(cli_value, ov, env_key, read, sensitive) ==
    IF IsSome(cli_value) /\ ~IsBlank(Unwrap(cli_value))
    THEN Ok(Unwrap(cli_value), 0)
    ELSE IF IsSome(OverrideOf(ov, env_key)) THEN Ok(Unwrap(ov[env_key]), 0)
    ELSE IF IsSome(EnvVarOf(env_key)) THEN Ok(Unwrap(process_env[env_key]), 0)
    ELSE prompt_value(read, sensitive)

\* resolve_value with the process environment consulted before the OverrideMap
resolve_value_env_first(cli_value, ov, env_key, read, sensitive) ==
    IF IsSome(cli_value) THEN Ok(Unwrap(cli_value), 0)
    ELSE IF IsSome(EnvVarOf(env_key)) THEN Ok(Unwrap(process_env[env_key]), 0)
    ELSE IF IsSome(OverrideOf(ov, env_key)) THEN Ok(Unwrap(ov[env_key]), 0)
    ELSE prompt_value(read, sensitive)

resolve_value(cli_value, ov, env_key, read, sensitive) ==
    IF IsSome(cli_value) THEN Ok(Unwrap(cli_value), 0)
    ELSE IF IsSome(OverrideOf(ov, env_key)) THEN Ok(Unwrap(ov[env_key]), 0)
    ELSE IF IsSome(EnvVarOf(env_key)) THEN Ok(Unwrap(process_env[env_key]), 0)
    ELSE prompt_value(read, sensitive)

\* resolve_optional_value with a blank prompt response reported as an error
resolve_optional_value_blank_is_error(cli_value, ov, env_key, read, sensitive) ==
    IF IsSome(cli_value) THEN Ok(cli_value, 0)
    ELSE IF IsSome(OverrideOf(ov, env_key)) THEN Ok(ov[env_key], 0)
    ELSE IF IsSome(EnvVarOf(env_key)) THEN Ok(process_env[env_key], 0)
    ELSE LET input == prompt_value(read, sensitive)
         IN  IF ~input.ok THEN input
             ELSE IF IsBlank(input.val) THEN Err("value required", 1)
             ELSE Ok(Some(input.val), 1)

resolve_optional_value(cli_value, ov, env_key, read, sensitive) ==
    IF IsSome(cli_value) THEN Ok(cli_value, 0)
    ELSE IF IsSome(OverrideOf(ov, env_key)) THEN Ok(ov[env_key], 0)
    ELSE IF IsSome(EnvVarOf(env_key)) THEN Ok(process_env[env_key], 0)
    ELSE LET input == prompt_value(read, sensitive)
         IN  IF ~input.ok THEN input
             ELSE IF IsBlank(input.val) THEN Ok(None, 1)
             ELSE Ok(Some(input.val), 1)

resolve_path(cli_value, ov, env_key, default, read) ==
    IF IsSome(cli_value) THEN Ok(Unwrap(cli_value), 0)
    ELSE IF IsSome(OverrideOf(ov, env_key)) THEN Ok(Unwrap(ov[env_key]), 0)
    ELSE IF IsSome(EnvVarOf(env_key)) THEN Ok(Unwrap(process_env[env_key]), 0)
    ELSE LET input == prompt_value(read, FALSE)
         IN  IF ~input.ok THEN input
             ELSE IF IsBlank(input.val) THEN Ok(default, 1)
             ELSE Ok(input.val, 1)

resolve_optional_path(cli_value, ov, env_key) ==
    IF IsSome(cli_value) THEN cli_value
    ELSE IF IsSome(OverrideOf(ov, env_key)) THEN ov[env_key]
    ELSE IF IsSome(EnvVarOf(env_key)) THEN process_env[env_key]
    ELSE None

RECURSIVE resolve_from_envs(_, _)
resolve_from_envs(ov, env_keys) ==
    IF env_keys = <<>> THEN None
    ELSE LET key == Head(env_keys)
         IN  IF IsSome(OverrideOf(ov, key)) THEN ov[key]
             ELSE IF IsSome(EnvVarOf(key)) THEN process_env[key]
             ELSE resolve_from_envs(ov, Tail(env_keys))

resolve_name_with_default(cli_value, ov, env_keys, default, read) ==
    IF IsSome(cli_value) THEN Ok(Unwrap(cli_value), 0)
    ELSE IF IsSome(resolve_from_envs(ov, env_keys))
         THEN Ok(Unwrap(resolve_from_envs(ov, env_keys)), 0)
    ELSE LET input == prompt_value(read, FALSE)
         IN  IF ~input.ok THEN input
             ELSE IF IsBlank(input.val) THEN Ok(default, 1)
             ELSE Ok(input.val, 1)

\* read_line_with_timeout: the receive on the channel, by its outcome
read_line_with_timeout(read) ==
    IF read.kind = "line" THEN Ok(Some(read.line), 1)
    ELSE IF read.kind = "timeout" THEN Ok(None, 1)
    ELSE Err("Failed to read input", 1)

\* select_resolver_with_timeout with an unrecognised choice reported as an
\* error
select_resolver_unrecognised_is_error(default_value, read1, read2) ==
    LET input == read_line_with_timeout(read1)
        choice == IF IsSome(input.val) THEN Unwrap(input.val) ELSE <<>>
        trimmed == Trim(choice)
    IN  IF ~input.ok THEN input
        ELSE IF trimmed = <<>> THEN Ok(default_value, 1)
        ELSE IF trimmed = <<"1">> THEN Ok(RESOLVER_CLOUDFLARE, 1)
        ELSE IF trimmed = <<"2">> THEN Ok(RESOLVER_TENCENT, 1)
        ELSE IF trimmed = <<"3">> THEN Ok(RESOLVER_ALI, 1)
        ELSE IF trimmed = <<"4">> THEN Ok(RESOLVER_GOOGLE, 1)
        ELSE IF trimmed = <<"5">>
             THEN LET custom == prompt_value(read2, FALSE)
                  IN  IF ~custom.ok THEN Err(custom.err, 2)
                      ELSE IF IsBlank(custom.val) THEN Ok(default_value, 2)
                      ELSE Ok(custom.val, 2)
        ELSE Err("Invalid choice", 1)

\* select_resolver_with_timeout: read1 is the timed read of the choice,
\* read2 the blocking read of the custom list.
select_resolver_with_timeout(default_value, read1, read2) ==
    LET input == read_line_with_timeout(read1)
        choice == IF IsSome(input.val) THEN Unwrap(input.val) ELSE <<>>
        trimmed == Trim(choice)
    IN  IF ~input.ok THEN input
        ELSE IF trimmed = <<>> THEN Ok(default_value, 1)
        ELSE IF trimmed = <<"1">> THEN Ok(RESOLVER_CLOUDFLARE, 1)
        ELSE IF trimmed = <<"2">> THEN Ok(RESOLVER_TENCENT, 1)
        ELSE IF trimmed = <<"3">> THEN Ok(RESOLVER_ALI, 1)
        ELSE IF trimmed = <<"4">> THEN Ok(RESOLVER_GOOGLE, 1)
        ELSE IF trimmed = <<"5">>
             THEN LET custom == prompt_value(read2, FALSE)
                  IN  IF ~custom.ok THEN Err(custom.err, 2)
                      ELSE IF IsBlank(custom.val) THEN Ok(default_value, 2)
                      ELSE Ok(custom.val, 2)
        ELSE Ok(default_value, 1)

resolve_resolvers(cli_values, ov, env_key, default_value, read1, read2) ==
    IF cli_values # <<>> THEN Ok(Join(cli_values), 0)
    ELSE IF IsSome(OverrideOf(ov, env_key)) THEN Ok(Unwrap(ov[env_key]), 0)
    ELSE IF IsSome(EnvVarOf(env_key)) THEN Ok(Unwrap(process_env[env_key]), 0)
    ELSE select_resolver_with_timeout(default_value, read1, read2)


----------------------------------------------------------------------------
(* One call of a resolver: SpecResolve draws the inputs of a call and      *)
(* applies the resolver to them.                                           *)

ResolveKeys == {"K1", "K2"}

\* values of the second alias key
AliasPool == {<<"b">>, <<" ">>}

\* values of a repeated flag
CliWords == {<<>>} \cup {<<c>> : c \in Chars}

\* what can be typed at the resolver menu
MenuLines ==
    {<<>>, <<" ">>, <<"1">>, <<"2">>, <<"3">>, <<"4">>, <<"5">>,
     <<" ", "5">>, <<"9">>, <<"a">>}

FreeReads == {Line(s) : s \in Strs} \cup {ReadError}
TimedReads == {Line(s) : s \in MenuLines} \cup {TimedOut}

ScalarFns ==
    {"resolve_value", "resolve_optional_value", "resolve_path",
     "resolve_optional_path", "resolve_name_with_default"}
SingleKeyFns ==
    {"resolve_value", "resolve_optional_value", "resolve_path",
     "resolve_optional_path", "resolve_resolvers"}

IdleRs == [fn |-> "none"]
IdleCli == [phase |-> "none"]
IdleArgs == [command |-> "none"]
IdleSt == [pc |-> "none"]
IdleTp == [phase |-> "none"]

ResolveCall(fn, cv, cvs, keys, sens, r1, r2) ==
    [fn |-> fn, cli_value |-> cv, cli_values |-> cvs, env_keys |-> keys,
     default |-> <<"dflt">>, sensitive |-> sens, read1 |-> r1, read2 |-> r2,
     ret |-> None]

\* The calls drawn.  A read is drawn freely where the call can reach a
\* prompt (no explicit value); with an explicit value it is a fixed line.
ResolveCalls ==
    {ResolveCall(fn, cv, <<>>, <<"K1">>, sens, r1, Line(<<>>)) :
        fn \in {"resolve_value", "resolve_optional_value"},
        cv \in {None}, sens \in BOOLEAN, r1 \in FreeReads}
    \cup
    {ResolveCall(fn, cv, <<>>, <<"K1">>, sens, Line(<<"a">>), Line(<<>>)) :
        fn \in {"resolve_value", "resolve_optional_value"},
        cv \in Opt(Strs) \ {None}, sens \in BOOLEAN}
    \cup
    {ResolveCall("resolve_path", None, <<>>, <<"K1">>, FALSE, r1, Line(<<>>)) :
        r1 \in FreeReads}
    \cup
    {ResolveCall(fn, cv, <<>>, <<"K1">>, FALSE, Line(<<"a">>), Line(<<>>)) :
        fn \in {"resolve_path", "resolve_optional_path"},
        cv \in Opt(Strs) \ {None}}
    \cup
    {ResolveCall("resolve_optional_path", None, <<>>, <<"K1">>, FALSE,
                 Line(<<"a">>), Line(<<>>))}
    \cup
    {ResolveCall("resolve_name_with_default", None, <<>>, keys, FALSE, r1,
                 Line(<<>>)) :
        keys \in {<<"K1", "K2">>, <<"K2", "K1">>}, r1 \in FreeReads}
    \cup
    {ResolveCall("resolve_name_with_default", cv, <<>>, keys, FALSE,
                 Line(<<"a">>), Line(<<>>)) :
        keys \in {<<"K1", "K2">>, <<"K2", "K1">>}, cv \in Opt(Strs) \ {None}}
    \cup
    {ResolveCall("resolve_resolvers", None, <<>>, <<"K1">>, FALSE, r1, r2) :
        r1 \in TimedReads, r2 \in FreeReads}
    \cup
    {ResolveCall("resolve_resolvers", None, cvs, <<"K1">>, FALSE,
                 Line(<<"1">>), Line(<<"a">>)) :
        cvs \in SeqsUpTo(CliWords, MaxCli) \ {<<>>}}

InitResolve ==
    /\ rs \in ResolveCalls
    /\ \E o1 \in Opt(Strs), e1 \in Opt(Strs),
          o2 \in IF rs.fn = "resolve_name_with_default"
                 THEN Opt(AliasPool) ELSE {None},
          e2 \in IF rs.fn = "resolve_name_with_default"
                 THEN Opt(AliasPool) ELSE {None} :
          /\ env_overrides = [k \in ResolveKeys |-> IF k = "K1" THEN o1 ELSE o2]
          /\ process_env = [k \in ResolveKeys |-> IF k = "K1" THEN e1 ELSE e2]
    /\ cli = IdleCli
    /\ args = IdleArgs
    /\ st = IdleSt
    /\ tp = IdleTp

Returned(r) ==
    /\ rs' = [rs EXCEPT !.ret = Some(r)]
    /\ UNCHANGED <<env_overrides, process_env, cli, args, st, tp>>

CallResolveValue ==
    /\ rs.fn = "resolve_value" /\ rs.ret = None
    /\ Returned(resolve_value(rs.cli_value, env_overrides, rs.env_keys[1],
                              rs.read1, rs.sensitive))

CallResolveOptionalValue ==
    /\ rs.fn = "resolve_optional_value" /\ rs.ret = None
    /\ Returned(resolve_optional_value(rs.cli_value, env_overrides,
                                       rs.env_keys[1], rs.read1, rs.sensitive))

CallResolvePath ==
    /\ rs.fn = "resolve_path" /\ rs.ret = None
    /\ Returned(resolve_path(rs.cli_value, env_overrides, rs.env_keys[1],
                             rs.default, rs.read1))

CallResolveOptionalPath ==
    /\ rs.fn = "resolve_optional_path" /\ rs.ret = None
    /\ Returned(Ok(resolve_optional_path(rs.cli_value, env_overrides,
                                         rs.env_keys[1]), 0))

CallResolveNameWithDefault ==
    /\ rs.fn = "resolve_name_with_default" /\ rs.ret = None
    /\ Returned(resolve_name_with_default(rs.cli_value, env_overrides,
                                          rs.env_keys, rs.default, rs.read1))

CallResolveResolvers ==
    /\ rs.fn = "resolve_resolvers" /\ rs.ret = None
    /\ Returned(resolve_resolvers(rs.cli_values, env_overrides, rs.env_keys[1],
                                  rs.default, rs.read1, rs.read2))

NextResolve ==
    \/ CallResolveValue
    \/ CallResolveOptionalValue
    \/ CallResolvePath
    \/ CallResolveOptionalPath
    \/ CallResolveNameWithDefault
    \/ CallResolveResolvers

SpecResolve == InitResolve /\ [][NextResolve]_vars

----------------------------------------------------------------------------
(* Claims about the resolvers *)

\* a text of whitespace only
OnlySpaces(s) == \A i \in 1..Len(s) : s[i] = " "

\* s is the values of vs in order, one space between neighbours
RECURSIVE SpaceSeparated(_, _)
SpaceSeparated(vs, s) ==
    LET n == Len(vs[1])
    IN  /\ Len(s) >= n
        /\ SubSeq(s, 1, n) = vs[1]
        /\ IF Len(vs) = 1 THEN Len(s) = n
           ELSE /\ Len(s) > n
                /\ s[n + 1] = " "
                /\ SpaceSeparated(Tail(vs), SubSeq(s, n + 2, Len(s)))

\* a source holds a usable value for the call's key
Usable(o) == IsSome(o) /\ ~OnlySpaces(Unwrap(o))

\* the value of a result, as an option for the variants that return one
ValueIs(r, v) ==
    IF rs.fn \in {"resolve_optional_value", "resolve_optional_path"}
    THEN r.val = Some(v) ELSE r.val = v

\* C1: with an explicit value, every resolver variant returns that value
\* (the repeated flag: its values joined by single spaces) whatever the
\* OverrideMap and the process environment hold, blank or not, and issues
\* no prompt.
C1_ExplicitValueWins ==
    IsSome(rs.ret) =>
        LET r == Unwrap(rs.ret)
        IN  /\ (rs.fn \in ScalarFns /\ IsSome(rs.cli_value)) =>
                   r.ok /\ r.prompts = 0 /\ ValueIs(r, Unwrap(rs.cli_value))
            /\ (rs.fn = "resolve_resolvers" /\ rs.cli_values # <<>>) =>
                   r.ok /\ r.prompts = 0 /\ SpaceSeparated(rs.cli_values, r.val)

\* a blank explicit value returned although both other sources hold
\* different non-blank values
C1_Witness ==
    /\ IsSome(rs.ret)
    /\ rs.fn = "resolve_value"
    /\ rs.cli_value = Some(<<" ">>)
    /\ Usable(env_overrides["K1"]) /\ Usable(process_env["K1"])
    /\ env_overrides["K1"] # process_env["K1"]
    /\ Unwrap(rs.ret).val = <<" ">>

\* C2: with no explicit value a single-key resolver returns the OverrideMap
\* entry when it is non-blank, else the environment value when that is
\* non-blank, and prompts exactly when neither source has a non-blank value
\* (the optional path variant, which has no prompt, then returns no value).
C2_OverrideThenEnvThenPrompt ==
    (IsSome(rs.ret) /\ rs.fn \in SingleKeyFns /\ rs.cli_value = None
        /\ rs.cli_values = <<>>) =>
        LET r == Unwrap(rs.ret)
            o == env_overrides[rs.env_keys[1]]
            e == process_env[rs.env_keys[1]]
        IN  /\ Usable(o) => r.ok /\ r.prompts = 0 /\ ValueIs(r, Unwrap(o))
            /\ (~Usable(o) /\ Usable(e)) =>
                   r.ok /\ r.prompts = 0 /\ ValueIs(r, Unwrap(e))
            /\ (~Usable(o) /\ ~Usable(e)) =>
                   IF rs.fn = "resolve_optional_path"
                   THEN r.prompts = 0 /\ r.val = None
                   ELSE r.prompts >= 1

\* a blank OverrideMap entry that does not mask the environment value
C2_Witness ==
    /\ IsSome(rs.ret)
    /\ rs.fn = "resolve_value" /\ rs.cli_value = None
    /\ env_overrides["K1"] = Some(<<" ">>)
    /\ process_env["K1"] = Some(<<"a">>)
    /\ Unwrap(rs.ret).val = <<"a">>
    /\ Unwrap(rs.ret).prompts = 0


----------------------------------------------------------------------------
(* Start-up: clap parses each --env entry with parse_key_val, main builds  *)
(* the OverrideMap from the parsed pairs and dispatches the command.       *)

\* longest --env entry drawn, in chunks
MaxArgLen == 3
\* most --env entries on a command line
MaxEnvArgs == 1

EnvArgChars == {"k", "=", " "}
EnvArgs == SeqsUpTo(EnvArgChars, MaxArgLen)

\* position of the first '=' of s, 0 when there is none
RECURSIVE FirstEq(_, _)
FirstEq(s, i) ==
    IF i > Len(s) THEN 0
    ELSE IF s[i] = "=" THEN i
    ELSE FirstEq(s, i + 1)

\* s.splitn(2, '='): the text before the first '=' and the text after it
SplitKey(s) ==
    IF FirstEq(s, 1) = 0 THEN s ELSE SubSeq(s, 1, FirstEq(s, 1) - 1)
SplitValue(s) ==
    IF FirstEq(s, 1) = 0 THEN <<>> ELSE SubSeq(s, FirstEq(s, 1) + 1, Len(s))

parse_key_val(s) ==
    LET key == Trim(SplitKey(s))
        value == SplitValue(s)
    IN  IF key = <<>> THEN Err("--env expects KEY=VALUE", 0)
        ELSE Ok(<<key, value>>, 0)

\* to_env_map: a later pair replaces an earlier pair of the same key
RECURSIVE LastValue(_, _)
LastValue(pairs, k) ==
    IF pairs[Len(pairs)][1] = k THEN pairs[Len(pairs)][2]
    ELSE LastValue(SubSeq(pairs, 1, Len(pairs) - 1), k)

to_env_map(pairs) ==
    [k \in {pairs[i][1] : i \in 1..Len(pairs)} |-> Some(LastValue(pairs, k))]

Commands ==
    {"setup", "issue-cert", "write-nginx-default", "write-proxy-config",
     "print-params"}

InitCli ==
    /\ cli = [phase |-> "parsing", raw |-> <<>>, env_pairs |-> <<>>,
              command |-> "none"]
    /\ env_overrides = <<>>
    /\ process_env = <<>>
    /\ rs = IdleRs
    /\ args = IdleArgs
    /\ st = IdleSt
    /\ tp = IdleTp

\* Cli::parse reads one more --env entry: a rejected entry ends the process
ParseEnvArg ==
    /\ cli.phase = "parsing"
    /\ Len(cli.raw) < MaxEnvArgs
    /\ \E s \in EnvArgs :
          LET r == parse_key_val(s)
          IN  cli' = [cli EXCEPT
                        !.raw = Append(@, s),
                        !.env_pairs = IF r.ok THEN Append(@, r.val) ELSE @,
                        !.phase = IF r.ok THEN "parsing" ELSE "error"]
    /\ UNCHANGED <<env_overrides, process_env, rs, args, st, tp>>

\* Cli::parse returns with the subcommand
ParseCommand ==
    /\ cli.phase = "parsing"
    /\ \E c \in Commands : cli' = [cli EXCEPT !.phase = "parsed", !.command = c]
    /\ UNCHANGED <<env_overrides, process_env, rs, args, st, tp>>

\* main: let env_overrides = to_env_map(&cli.env_overrides)
BuildEnvMap ==
    /\ cli.phase = "parsed"
    /\ env_overrides' = to_env_map(cli.env_pairs)
    /\ cli' = [cli EXCEPT !.phase = "mapped"]
    /\ UNCHANGED <<process_env, rs, args, st, tp>>

\* main: match cli.command
Dispatch ==
    /\ cli.phase = "mapped"
    /\ cli' = [cli EXCEPT !.phase = "running"]
    /\ UNCHANGED <<env_overrides, process_env, rs, args, st, tp>>

NextCli == ParseEnvArg \/ ParseCommand \/ BuildEnvMap \/ Dispatch

SpecCli == InitCli /\ [][NextCli]_vars

\* an entry with no '=' or with nothing before its first '='
Malformed(s) == FirstEq(s, 1) = 0 \/ FirstEq(s, 1) = 1

\* C6: every --env entry with no '=' or with an empty key is rejected at
\* start-up, before a command runs, and only KEY=VALUE entries reach the
\* OverrideMap.
C6_MalformedEnvRejected ==
    \A i \in 1..Len(cli.raw) :
        Malformed(cli.raw[i]) =>
            /\ cli.phase = "error"
            /\ Len(cli.env_pairs) < i


----------------------------------------------------------------------------
(* The commands of commands.rs.  A command is a machine whose state is the *)
(* record st; each step is a function of the state and of what the         *)
(* environment answers at that step: ch.read1 and ch.read2 are reads of    *)
(* the input stream, ch.ext is the outcome of the step's external action.  *)

DEFAULT_RESOLVER ==
    <<"1.1.1.1", " ", "1.0.0.1", " ", "[2606:4700:4700::1111]", " ",
      "[2606:4700:4700::1064]">>

LocNames ==
    {"cf_token", "cf_account_id", "cf_zone_id", "domain", "wildcard_domain",
     "acme_bin", "acme_home", "cert_dir", "cert_output_path",
     "key_output_path", "nginx_bin", "cert_path", "key_path", "output_path",
     "proxy_domain", "backend_url", "resolver", "output_dir"}

Capabilities == <<"zsh", "crontab", "nginx">>

\* the state of a command at its entry
StartState(pc, dry) ==
    [pc |-> pc, dry_run |-> dry, result |-> "running",
     loc |-> [n \in LocNames |-> None],
     cap |-> "-", todo |-> <<>>,
     exists |-> [c \in {"zsh", "crontab", "nginx"} |-> None],
     confirmed |-> None, root_checks |-> 0,
     fx |-> <<>>, intents |-> <<>>, changes |-> <<>>, reads |-> <<>>]

Goto(s, pc) == [s EXCEPT !.pc = pc]

\* return Err(e): the command ends
Fail(s, e) == [s EXCEPT !.pc = "done", !.result = e]

\* return Ok(()) from the command
Finish(s) == [s EXCEPT !.pc = "done", !.result = "ok"]

Act(s, what) == [cap |-> s.cap, act |-> what]

\* info("[dry-run] Would ...")
LogIntent(s, what) == [s EXCEPT !.intents = Append(@, Act(s, what))]

\* a subprocess that ran, with its exit status
Ran(s, what, status) ==
    [s EXCEPT !.fx = Append(@, [cap |-> s.cap, act |-> what, status |-> status])]

\* a mutating action carried out (a subprocess that exited with status 0,
\* a file operation that returned Ok)
Did(s, what) == Ran(s, what, "ok")

Read(s, read) == [s EXCEPT !.reads = Append(@, read)]

\* command_exists: a lookup of the name in the directories of PATH
command_exists(command_name) == command_name \in args.path_cmds

\* run_cmd
run_cmd_ignoring_status(s, what, ext) ==
    IF s.dry_run THEN LogIntent(s, what)
    ELSE IF ext = "spawn_failed" THEN Fail(s, "Failed to run")
    ELSE Ran(s, what, ext)

run_cmd(s, what, ext) ==
    IF s.dry_run THEN LogIntent(s, what)
    ELSE IF ext = "spawn_failed" THEN Fail(s, "Failed to run")
    ELSE IF ext = "ok" THEN Did(s, what)
    ELSE Fail(Ran(s, what, ext), "Command failed")

\* if dry_run { info(..) } else { fs::write / fs::rename / ... }
fs_op(s, what, ext) ==
    IF s.dry_run THEN LogIntent(s, what)
    ELSE IF ext = "ok" THEN Did(s, what)
    ELSE Fail(s, "Failed to write")

\* ensure_root letting every caller through
ensure_root_unchecked(s, next) ==
    Goto([s EXCEPT !.root_checks = @ + 1], next)

\* ensure_root: id -u; root_checks counts the calls
ensure_root(s, next) ==
    LET checked == [s EXCEPT !.root_checks = @ + 1]
    IN  IF args.uid = "spawn_failed" THEN Fail(checked, "Failed to check uid")
        ELSE IF args.uid # "0"
             THEN Fail(checked, "This command must be run as root")
        ELSE Goto(checked, next)

\* eq_ignore_ascii_case on the chunks a confirmation is compared with
AsciiLower(c) ==
    IF c = "Y" THEN "y"
    ELSE IF c \in {"YES", "Yes"} THEN "yes"
    ELSE c

\* the confirmation taking every non-empty answer for a yes
IsYesWhenAnswered(line) == Trim(line) # <<>>

IsYes(line) ==
    LET trimmed == Trim(line)
    IN  Len(trimmed) = 1 /\ AsciiLower(trimmed[1]) \in {"y", "yes"}

DEFAULT_CONFIRM_TIMEOUT == 10

\* confirm_with_timeout taking silence for consent
confirm_with_timeout_silence_accepts(dry_run, read) ==
    IF dry_run THEN Ok(FALSE, 0)
    ELSE IF read.kind = "line" THEN Ok(IsYes(read.line), 1)
    ELSE IF read.kind = "timeout" THEN Ok(TRUE, 1)
    ELSE Err("Failed to read input", 1)

\* confirm_with_timeout, by the outcome of the receive on its channel
confirm_with_timeout(dry_run, read) ==
    IF dry_run THEN Ok(FALSE, 0)
    ELSE IF read.kind = "line" THEN Ok(IsYes(read.line), 1)
    ELSE IF read.kind = "timeout" THEN Ok(FALSE, 1)
    ELSE Err("Failed to read input", 1)

----------------------------------------------------------------------------
(* setup *)

Run(what) == [k |-> "run", act |-> what]
FsWrite(what) == [k |-> "write", act |-> what]

ZshInstaller ==
    <<Run("apt-get update -qq"), Run("apt-get install -y zsh")>>

CronInstaller ==
    <<Run("apt-get update -qq"), Run("apt-get install -y cron"),
      Run("systemctl enable cron"), Run("systemctl start cron")>>

NginxInstaller == <<[k |-> "read_os_id", act |-> "read /etc/os-release"]>>

install_nginx_debian_like(os_id) ==
    <<Run(IF os_id = "ubuntu"
          THEN "apt install -y curl gnupg2 ca-certificates lsb-release ubuntu-keyring"
          ELSE "apt install -y curl gnupg2 ca-certificates lsb-release debian-archive-keyring"),
      Run("curl -o /tmp/nginx_signing.key"),
      Run("gpg --dearmor -o /usr/share/keyrings/nginx-archive-keyring.gpg"),
      [k |-> "read_os_codename", act |-> "read /etc/os-release"],
      FsWrite("write /etc/apt/sources.list.d/nginx.list"),
      FsWrite("write /etc/apt/preferences.d/99nginx"),
      Run("apt update"),
      Run("apt install -y nginx")>>

install_nginx_alpine ==
    <<Run("apk add openssl curl ca-certificates"),
      [k |-> "read_alpine_release", act |-> "read /etc/alpine-release"],
      [k |-> "append_repo", act |-> "append nginx repo to /etc/apk/repositories"],
      Run("curl -o /tmp/nginx_signing.rsa.pub"),
      FsWrite("move nginx signing key to /etc/apk/keys/"),
      Run("apk add nginx@nginx")>>

\* read_os_id
read_os_id ==
    IF ~args.os.readable THEN Err("Failed to read /etc/os-release", 0)
    ELSE IF args.os.id = None THEN Err("OS ID not found in /etc/os-release", 0)
    ELSE Ok(Unwrap(args.os.id), 0)

\* install_nginx_official: the procedure chosen by the OS identifier
install_nginx_official(s) ==
    LET os_id == read_os_id
    IN  IF ~os_id.ok THEN Fail(s, os_id.err)
        ELSE IF os_id.val \in {"debian", "ubuntu"}
             THEN [s EXCEPT !.todo = install_nginx_debian_like(os_id.val)]
        ELSE IF os_id.val = "alpine"
             THEN [s EXCEPT !.todo = install_nginx_alpine]
        ELSE Fail(s, "Unsupported OS for nginx install")

\* read_os_codename: the descriptor's field, else lsb_release -cs
read_os_codename(s, ext) ==
    IF ~args.os.readable THEN Fail(s, "Failed to read /etc/os-release")
    ELSE IF args.os.codename THEN s
    ELSE IF ext = "spawn_failed" THEN Fail(s, "Failed to run lsb_release")
    ELSE IF ext # "ok" THEN Fail(s, "Failed to read OS codename")
    ELSE s

\* the repository line of install_nginx_alpine
append_repo(s, what, ext) ==
    IF s.dry_run THEN LogIntent(s, what)
    ELSE IF ext = "io_error" THEN Fail(s, "Failed to read /etc/apk/repositories")
    ELSE IF ext = "noop" THEN s
    ELSE IF ext = "ok" THEN Did(s, what)
    ELSE Fail(s, "Failed to write /etc/apk/repositories")

NextCapability(c) ==
    IF c = "zsh" THEN "cron" ELSE IF c = "crontab" THEN "nginx" ELSE "summary"

InstallerOf(c) ==
    IF c = "zsh" THEN ZshInstaller
    ELSE IF c = "crontab" THEN CronInstaller
    ELSE NginxInstaller

\* one sub-step of an install procedure; a failure returns through every `?`
sub_step(s, ch) ==
    LET step == Head(s.todo)
        rest == [s EXCEPT !.todo = Tail(@)]
    IN  IF step.k = "run" THEN run_cmd(rest, step.act, ch.ext)
        ELSE IF step.k = "write" THEN fs_op(rest, step.act, ch.ext)
        ELSE IF step.k = "read_os_id" THEN install_nginx_official(rest)
        ELSE IF step.k = "read_os_codename" THEN read_os_codename(rest, ch.ext)
        ELSE IF step.k = "read_alpine_release"
             THEN IF ch.ext = "ok" THEN rest
                  ELSE Fail(rest, "Failed to read /etc/alpine-release")
        ELSE append_repo(rest, step.act, ch.ext)

\* install_if_missing, up to the call of the installer
install_if_missing(s, command_name) ==
    LET probed == [s EXCEPT !.cap = command_name,
                            !.exists[command_name] = Some(command_exists(command_name))]
    IN  IF command_exists(command_name)
        THEN Goto(probed, NextCapability(command_name))
        ELSE [Goto(probed, "installer") EXCEPT !.todo = InstallerOf(command_name)]

\* install_if_missing, after the installer returned Ok
record_change_always_installed(s) ==
    [Goto(s, NextCapability(s.cap)) EXCEPT
        !.changes = Append(@, <<"Installed", s.cap>>)]

record_change(s) ==
    [Goto(s, NextCapability(s.cap)) EXCEPT
        !.changes = Append(@, IF s.dry_run THEN <<"Would install", s.cap>>
                                ELSE <<"Installed", s.cap>>)]

\* setup_system, lines 33-35: the zsh step up to the confirmation
setup_zsh(s) ==
    IF ~args.install_zsh THEN Goto(s, "cron")
    ELSE LET probed == [s EXCEPT !.cap = "zsh",
                                 !.exists["zsh"] = Some(command_exists("zsh"))]
         IN  IF command_exists("zsh") THEN Goto(probed, "cron")
             ELSE Goto(probed, "zsh_confirm")

\* setup_system, lines 36-43
setup_zsh_confirm(s, ch) ==
    LET answer == confirm_with_timeout(s.dry_run, ch.read1)
        asked == IF answer.prompts > 0 THEN Read(s, ch.read1) ELSE s
    IN  IF ~answer.ok THEN Fail(asked, answer.err)
        ELSE IF answer.val
             THEN install_if_missing([asked EXCEPT !.confirmed = Some(TRUE)], "zsh")
        ELSE Goto([asked EXCEPT !.confirmed = Some(FALSE)], "cron")

setup_cron(s) ==
    IF args.install_cron THEN install_if_missing(s, "crontab") ELSE Goto(s, "nginx")

setup_nginx(s) ==
    IF args.install_nginx THEN install_if_missing(s, "nginx") ELSE Goto(s, "summary")

setup_installer(s, ch) ==
    IF s.todo = <<>> THEN record_change(s) ELSE sub_step(s, ch)

SetupStep(s, ch) ==
    CASE s.pc = "setup" -> ensure_root(s, "zsh")
      [] s.pc = "zsh" -> setup_zsh(s)
      [] s.pc = "zsh_confirm" -> setup_zsh_confirm(s, ch)
      [] s.pc = "cron" -> setup_cron(s)
      [] s.pc = "nginx" -> setup_nginx(s)
      [] s.pc = "installer" -> setup_installer(s, ch)
      [] s.pc = "summary" -> Finish(s)


----------------------------------------------------------------------------
(* Paths and the assemblers *)

\* Path::join: an absolute second path replaces the first
PathJoin(a, b) ==
    IF b # <<>> /\ Head(b) = "/" THEN b
    ELSE IF a = <<>> \/ a[Len(a)] = "/" THEN a \o b
    ELSE a \o <<"/">> \o b

\* index of the last "/" chunk of p, 0 when there is none
RECURSIVE LastSlash(_, _)
LastSlash(p, i) ==
    IF i = 0 THEN 0 ELSE IF p[i] = "/" THEN i ELSE LastSlash(p, i - 1)

\* Path::parent: none for the empty path and for the root
Parent(p) ==
    IF p = <<>> \/ p = <<"/">> THEN None
    ELSE IF LastSlash(p, Len(p)) = 0 THEN Some(<<>>)
    ELSE IF LastSlash(p, Len(p)) = 1 THEN Some(<<"/">>)
    ELSE Some(SubSeq(p, 1, LastSlash(p, Len(p)) - 1))

\* proxy_domain.replace('.', "-") on the domains drawn
Dashed(d) ==
    IF d = <<"proxy.foo.com">> THEN <<"proxy-foo-com">>
    ELSE IF d = <<"foo.com">> THEN <<"foo-com">>
    ELSE d

resolve_cert_dir(cert_dir, cert_dir_name, ov, env_keys, default_name, read) ==
    IF IsSome(cert_dir) THEN Ok(Unwrap(cert_dir), 0)
    ELSE LET name == resolve_name_with_default(cert_dir_name, ov, env_keys,
                                               default_name, read)
         IN  IF ~name.ok THEN name
             ELSE Ok(PathJoin(<<"/", "etc", "/", "ca-certificates">>, name.val),
                     name.prompts)

\* resolve_cert_paths deriving the missing half of a half-given pair
resolve_cert_paths_derives_missing(cert_path, key_path, cert_dir, domain) ==
    IF IsSome(cert_path) /\ IsSome(key_path)
    THEN Ok(<<Unwrap(cert_path), Unwrap(key_path)>>, 0)
    ELSE IF cert_dir = None
         THEN Err("cert_dir is required to derive cert paths", 0)
    ELSE IF domain = None
         THEN Err("domain is required to derive cert paths", 0)
    ELSE Ok(<<IF IsSome(cert_path) THEN Unwrap(cert_path)
              ELSE PathJoin(Unwrap(cert_dir), Unwrap(domain) \o <<".cer">>),
              IF IsSome(key_path) THEN Unwrap(key_path)
              ELSE PathJoin(Unwrap(cert_dir), Unwrap(domain) \o <<".key">>)>>, 0)

resolve_cert_paths(cert_path, key_path, cert_dir, domain) ==
    IF IsSome(cert_path) /\ IsSome(key_path)
    THEN Ok(<<Unwrap(cert_path), Unwrap(key_path)>>, 0)
    ELSE IF cert_path = None /\ key_path = None
         THEN IF cert_dir = None
              THEN Err("cert_dir is required to derive cert paths", 0)
              ELSE IF domain = None
              THEN Err("domain is required to derive cert paths", 0)
              ELSE Ok(<<PathJoin(Unwrap(cert_dir), Unwrap(domain) \o <<".cer">>),
                        PathJoin(Unwrap(cert_dir), Unwrap(domain) \o <<".key">>)>>,
                      0)
    ELSE Err("Both cert and key paths must be set together", 0)

\* `let name = resolver(..)?;`: the read is consumed when the resolver
\* prompted, an error returns from the command, a value is bound
Bind(s, name, r, read, next) ==
    LET asked == IF r.prompts > 0 THEN Read(s, read) ELSE s
    IN  IF ~r.ok THEN Fail(asked, r.err)
        ELSE Goto([asked EXCEPT !.loc[name] = Some(r.val)], next)

\* the shared opening of the two template commands: the explicit pair
cert_key_options(s, next) ==
    Goto([s EXCEPT
            !.loc["cert_path"] =
                resolve_optional_path(args.cert_path, env_overrides, "NGINX_CERT_PATH"),
            !.loc["key_path"] =
                resolve_optional_path(args.key_path, env_overrides, "NGINX_KEY_PATH")],
         next)

needs_domain(s) == s.loc["cert_path"] = None \/ s.loc["key_path"] = None

\* let (cert_path, key_path) = resolve_cert_paths(..)?
cert_paths_step(s, next) ==
    LET r == resolve_cert_paths(s.loc["cert_path"], s.loc["key_path"],
                                s.loc["cert_dir"], s.loc["domain"])
    IN  IF ~r.ok THEN Fail(s, r.err)
        ELSE Goto([s EXCEPT !.loc["cert_path"] = Some(r.val[1]),
                            !.loc["key_path"] = Some(r.val[2])], next)

NginxCertDirKeys == <<"NGINX_CERT_DIR_NAME", "CERT_DIR_NAME">>

----------------------------------------------------------------------------
(* write-nginx-default *)

nd_domain(s, ch) ==
    IF needs_domain(s)
    THEN Bind(s, "domain",
              resolve_value(args.domain, env_overrides, "DOMAIN", ch.read1, FALSE),
              ch.read1, "nd_cert_dir")
    ELSE Goto(s, "nd_cert_dir")

nd_cert_dir(s, ch) ==
    IF needs_domain(s)
    THEN Bind(s, "cert_dir",
              resolve_cert_dir(None, args.cert_dir_name, env_overrides,
                               NginxCertDirKeys, <<"custom">>, ch.read1),
              ch.read1, "nd_cert_paths")
    ELSE Goto(s, "nd_cert_paths")

nd_output(s, ch) ==
    Bind(s, "output_path",
         resolve_path(args.output_path, env_overrides, "NGINX_DEFAULT_OUTPUT",
                      <<"/", "etc", "/", "nginx", "/", "conf.d", "/", "default",
                        "/", "00-default.conf">>,
                      ch.read1),
         ch.read1, "nd_mkdir")

nd_mkdir(s, ch) ==
    IF IsSome(Parent(Unwrap(s.loc["output_path"])))
    THEN LET r == fs_op(s, "create_dir_all", ch.ext)
         IN  IF r.pc = "done" THEN r ELSE Goto(r, "nd_write")
    ELSE Goto(s, "nd_write")

nd_write(s, ch) ==
    LET r == fs_op(s, "write config", ch.ext)
    IN  IF r.pc = "done" THEN r ELSE Finish(r)

NginxDefaultStep(s, ch) ==
    CASE s.pc = "nd" -> cert_key_options(s, "nd_domain")
      [] s.pc = "nd_domain" -> nd_domain(s, ch)
      [] s.pc = "nd_cert_dir" -> nd_cert_dir(s, ch)
      [] s.pc = "nd_cert_paths" -> cert_paths_step(s, "nd_output")
      [] s.pc = "nd_output" -> nd_output(s, ch)
      [] s.pc = "nd_mkdir" -> nd_mkdir(s, ch)
      [] s.pc = "nd_write" -> nd_write(s, ch)

----------------------------------------------------------------------------
(* write-proxy-config *)

px_proxy_domain(s, ch) ==
    Bind(s, "proxy_domain",
         resolve_value(args.proxy_domain, env_overrides, "PROXY_DOMAIN",
                       ch.read1, FALSE),
         ch.read1, "px_backend")

px_backend(s, ch) ==
    Bind(s, "backend_url",
         resolve_value(args.backend_url, env_overrides, "BACKEND_URL",
                       ch.read1, FALSE),
         ch.read1, "px_resolver")

px_resolver(s, ch) ==
    LET r == resolve_resolvers(args.resolvers, env_overrides, "RESOLVER",
                               DEFAULT_RESOLVER, ch.read1, ch.read2)
        asked == IF r.prompts = 2 THEN Read(Read(s, ch.read1), ch.read2)
                 ELSE IF r.prompts = 1 THEN Read(s, ch.read1)
                 ELSE s
    IN  IF ~r.ok THEN Fail(asked, r.err)
        ELSE Goto([asked EXCEPT !.loc["resolver"] = Some(r.val)], "px_paths")

\* lines 363-373: the proxy domain is passed as the explicit value
px_domain(s, ch) ==
    IF needs_domain(s)
    THEN Bind(s, "domain",
              resolve_value(Some(Unwrap(s.loc["proxy_domain"])), env_overrides,
                            "DOMAIN", ch.read1, FALSE),
              ch.read1, "px_cert_dir")
    ELSE Goto(s, "px_cert_dir")

px_cert_dir(s, ch) ==
    IF needs_domain(s)
    THEN Bind(s, "cert_dir",
              resolve_cert_dir(
                  resolve_optional_path(args.cert_dir, env_overrides, "CERT_DIR"),
                  args.cert_dir_name, env_overrides, NginxCertDirKeys,
                  <<"custom">>, ch.read1),
              ch.read1, "px_cert_paths")
    ELSE Goto(s, "px_cert_paths")

px_output(s, ch) ==
    LET r == resolve_path(args.output_dir, env_overrides, "PROXY_OUTPUT_DIR",
                          <<"/", "etc", "/", "nginx", "/", "conf.d", "/", "proxy">>, ch.read1)
        bound == Bind(s, "output_dir", r, ch.read1, "px_write")
    IN  IF ~r.ok THEN bound
        ELSE [bound EXCEPT !.loc["output_path"] =
                 Some(PathJoin(r.val,
                               Dashed(Unwrap(s.loc["proxy_domain"])) \o <<".conf">>))]

\* lines 403-412: the dry run reports the write and returns
px_write(s, ch) ==
    IF s.dry_run THEN Finish(LogIntent(s, "write config"))
    ELSE IF ch.ext = "ok" THEN Goto(Did(s, "create_dir_all"), "px_write_file")
    ELSE Fail(s, "Failed to create")

px_write_file(s, ch) ==
    IF ch.ext = "ok" THEN Finish(Did(s, "write config"))
    ELSE Fail(s, "Failed to write")

ProxyStep(s, ch) ==
    CASE s.pc = "px" -> px_proxy_domain(s, ch)
      [] s.pc = "px_backend" -> px_backend(s, ch)
      [] s.pc = "px_resolver" -> px_resolver(s, ch)
      [] s.pc = "px_paths" -> cert_key_options(s, "px_domain")
      [] s.pc = "px_domain" -> px_domain(s, ch)
      [] s.pc = "px_cert_dir" -> px_cert_dir(s, ch)
      [] s.pc = "px_cert_paths" -> cert_paths_step(s, "px_output")
      [] s.pc = "px_output" -> px_output(s, ch)
      [] s.pc = "px_write" -> px_write(s, ch)
      [] s.pc = "px_write_file" -> px_write_file(s, ch)


----------------------------------------------------------------------------
(* issue-cert *)

ic_wildcard(s, ch) ==
    LET r == resolve_optional_value(args.wildcard_domain, env_overrides,
                                    "WILDCARD_DOMAIN", ch.read1, FALSE)
        value == IF ~r.ok THEN r
                 ELSE IF IsSome(r.val) THEN Ok(Unwrap(r.val), r.prompts)
                 ELSE Ok(<<"*.">> \o Unwrap(s.loc["domain"]), r.prompts)
    IN  Bind(s, "wildcard_domain", value, ch.read1, "ic_acme_bin")

ic_cert_dir(s, ch) ==
    Bind(s, "cert_dir",
         resolve_cert_dir(
             resolve_optional_path(args.cert_dir, env_overrides, "CERT_DIR"),
             args.cert_dir_name, env_overrides, <<"CERT_DIR_NAME">>,
             <<"custom">>, ch.read1),
         ch.read1, "ic_out_paths")

\* lines 132-138 without the test of line 136
ic_out_paths_unchecked(s) ==
    Goto([s EXCEPT !.loc["cert_output_path"] =
                       resolve_optional_path(args.cert_output_path, env_overrides,
                                             "CERT_OUTPUT_PATH"),
                   !.loc["key_output_path"] =
                       resolve_optional_path(args.key_output_path, env_overrides,
                                             "KEY_OUTPUT_PATH")],
         "ic_nginx_bin")

\* lines 132-138
ic_out_paths(s) ==
    LET cert_output_path ==
            resolve_optional_path(args.cert_output_path, env_overrides,
                                  "CERT_OUTPUT_PATH")
        key_output_path ==
            resolve_optional_path(args.key_output_path, env_overrides,
                                  "KEY_OUTPUT_PATH")
    IN  IF IsSome(cert_output_path) # IsSome(key_output_path)
        THEN Fail(s, "Both CERT_OUTPUT_PATH and KEY_OUTPUT_PATH must be set together")
        ELSE Goto([s EXCEPT !.loc["cert_output_path"] = cert_output_path,
                            !.loc["key_output_path"] = key_output_path],
                  "ic_nginx_bin")

\* lines 147-156
ic_rm_cache(s, ch) ==
    IF s.dry_run THEN Goto(LogIntent(s, "remove cache dir"), "ic_acme")
    ELSE IF ch.ext = "noop" THEN Goto(s, "ic_acme")
    ELSE IF ch.ext = "ok" THEN Goto(Did(s, "remove cache dir"), "ic_acme")
    ELSE Fail(s, "Failed to remove cache dir")

\* the ACME step going on after a failed issuance
ic_acme_ignoring_status(s, ch) ==
    IF s.dry_run THEN Goto(LogIntent(s, "acme.sh --issue"), "ic_mkdir")
    ELSE IF ch.ext = "spawn_failed" THEN Fail(s, "Failed to run acme.sh")
    ELSE Goto(Ran(s, "acme.sh --issue", ch.ext), "ic_mkdir")

\* lines 176-186
ic_acme(s, ch) ==
    IF s.dry_run THEN Goto(LogIntent(s, "acme.sh --issue"), "ic_mkdir")
    ELSE IF ch.ext = "spawn_failed" THEN Fail(s, "Failed to run acme.sh")
    ELSE IF ch.ext = "ok" THEN Goto(Did(s, "acme.sh --issue"), "ic_mkdir")
    ELSE Fail(Ran(s, "acme.sh --issue", ch.ext), "Certificate issuance failed")

\* lines 190-196
cert_dst(s) ==
    IF IsSome(s.loc["cert_output_path"]) /\ IsSome(s.loc["key_output_path"])
    THEN Unwrap(s.loc["cert_output_path"])
    ELSE PathJoin(Unwrap(s.loc["cert_dir"]), Unwrap(s.loc["domain"]) \o <<".cer">>)

\* lines 198-210
ic_mkdir(s, ch) ==
    IF s.dry_run THEN Goto(LogIntent(s, "create cert dir"), "ic_copy_cert")
    ELSE IF Parent(cert_dst(s)) = None THEN Goto(s, "ic_copy_cert")
    ELSE IF ch.ext = "ok" THEN Goto(Did(s, "create cert dir"), "ic_copy_cert")
    ELSE Fail(s, "Failed to create")

\* lines 212-225
ic_copy_cert(s, ch) ==
    IF s.dry_run
    THEN Goto(LogIntent(LogIntent(s, "copy cert"), "copy key"), "ic_nginx")
    ELSE IF ch.ext = "ok" THEN Goto(Did(s, "copy cert"), "ic_copy_key")
    ELSE Fail(s, "Failed to copy cert")

\* lines 226-228
ic_copy_key(s, ch) ==
    IF ch.ext = "ok" THEN Goto(Did(s, "copy key"), "ic_nginx")
    ELSE Fail(s, "Failed to copy key")

\* lines 231-243
ic_nginx(s, ch) ==
    IF ~args.reload_nginx THEN Goto(s, "ic_cron")
    ELSE IF s.dry_run
         THEN Goto(LogIntent(LogIntent(s, "nginx -t"), "nginx -s reload"), "ic_cron")
    ELSE IF ch.ext = "spawn_failed" THEN Fail(s, "Failed to run nginx -t")
    ELSE IF ch.ext = "ok" THEN Goto(Did(s, "nginx -t"), "ic_reload")
    ELSE Fail(Ran(s, "nginx -t", ch.ext), "nginx -t failed")

\* lines 245-255
ic_reload(s, ch) ==
    IF ch.ext = "spawn_failed" THEN Fail(s, "Failed to reload nginx")
    ELSE IF ch.ext = "ok" THEN Goto(Did(s, "nginx -s reload"), "ic_cron")
    ELSE Fail(Ran(s, "nginx -s reload", ch.ext), "nginx reload failed")

\* setup_acme_renew_cron; "noop" is a job table that holds the line
setup_acme_renew_cron(s, ch) ==
    IF ~command_exists("crontab") THEN Finish(s)
    ELSE IF s.dry_run THEN Finish(LogIntent(s, "crontab -"))
    ELSE IF ch.ext = "io_error" THEN Fail(s, "Failed to read crontab")
    ELSE IF ch.ext = "noop" THEN Finish(s)
    ELSE IF ch.ext = "spawn_failed" THEN Fail(s, "Failed to write crontab")
    ELSE IF ch.ext = "ok" THEN Finish(Did(s, "crontab -"))
    ELSE Fail(Ran(s, "crontab -", ch.ext), "Failed to update crontab")

IssueCertStep(s, ch) ==
    CASE s.pc = "ic" -> ensure_root(s, "ic_cf_token")
      [] s.pc = "ic_cf_token" ->
            Bind(s, "cf_token",
                 resolve_value(args.cf_token, env_overrides, "CF_TOKEN",
                               ch.read1, TRUE),
                 ch.read1, "ic_cf_account_id")
      [] s.pc = "ic_cf_account_id" ->
            Bind(s, "cf_account_id",
                 resolve_value(args.cf_account_id, env_overrides,
                               "CF_ACCOUNT_ID", ch.read1, FALSE),
                 ch.read1, "ic_cf_zone_id")
      [] s.pc = "ic_cf_zone_id" ->
            Bind(s, "cf_zone_id",
                 resolve_value(args.cf_zone_id, env_overrides, "CF_ZONE_ID",
                               ch.read1, FALSE),
                 ch.read1, "ic_domain")
      [] s.pc = "ic_domain" ->
            Bind(s, "domain",
                 resolve_value(args.domain, env_overrides, "DOMAIN", ch.read1,
                               FALSE),
                 ch.read1, "ic_wildcard")
      [] s.pc = "ic_wildcard" -> ic_wildcard(s, ch)
      [] s.pc = "ic_acme_bin" ->
            Bind(s, "acme_bin",
                 resolve_path(args.acme_bin, env_overrides, "ACME_BIN",
                              <<"/", "root", "/", ".acme.sh", "/", "acme.sh">>,
                              ch.read1),
                 ch.read1, "ic_acme_home")
      [] s.pc = "ic_acme_home" ->
            Bind(s, "acme_home",
                 resolve_path(args.acme_home, env_overrides, "ACME_HOME",
                              <<"/", "root", "/", ".acme.sh">>, ch.read1),
                 ch.read1, "ic_cert_dir")
      [] s.pc = "ic_cert_dir" -> ic_cert_dir(s, ch)
      [] s.pc = "ic_out_paths" -> ic_out_paths(s)
      [] s.pc = "ic_nginx_bin" ->
            Bind(s, "nginx_bin",
                 resolve_path(args.nginx_bin, env_overrides, "NGINX_BIN",
                              <<"nginx">>, ch.read1),
                 ch.read1, "ic_rm_cache")
      [] s.pc = "ic_rm_cache" -> ic_rm_cache(s, ch)
      [] s.pc = "ic_acme" -> ic_acme(s, ch)
      [] s.pc = "ic_mkdir" -> ic_mkdir(s, ch)
      [] s.pc = "ic_copy_cert" -> ic_copy_cert(s, ch)
      [] s.pc = "ic_copy_key" -> ic_copy_key(s, ch)
      [] s.pc = "ic_nginx" -> ic_nginx(s, ch)
      [] s.pc = "ic_reload" -> ic_reload(s, ch)
      [] s.pc = "ic_cron" -> setup_acme_renew_cron(s, ch)

\* the step of the running command
CommandStep(s, ch) ==
    CASE args.command = "setup" -> SetupStep(s, ch)
      [] args.command = "issue-cert" -> IssueCertStep(s, ch)
      [] args.command = "write-nginx-default" -> NginxDefaultStep(s, ch)
      [] args.command = "write-proxy-config" -> ProxyStep(s, ch)

----------------------------------------------------------------------------
(* Running a command: the environment's answers at each step *)

Choice(read1, read2, ext) == [read1 |-> read1, read2 |-> read2, ext |-> ext]

\* outcomes of an external action: exit status 0 / Ok, a non-zero exit, a
\* subprocess that could not be spawned, a filesystem error, and nothing to
\* do (the line is already there, the directory is absent)
Exts == {"ok", "exit_nonzero", "spawn_failed", "io_error", "noop"}

\* lines typed at a blocking prompt
CmdReads == {Line(<<>>), Line(<<"x">>), ReadError}

\* answers to the confirmation
ConfirmReads ==
    {Line(<<"y">>), Line(<<"YES">>), Line(<<" ", "y", " ">>), Line(<<"n">>),
     Line(<<>>), TimedOut, ReadError}

\* answers to the resolver menu and to its custom prompt
MenuReads ==
    {Line(<<"2">>), Line(<<"5">>), Line(<<"9">>), Line(<<>>), TimedOut, ReadError}
CustomReads == {Line(<<>>), Line(<<"9.9.9.9">>), ReadError}

NoChoice == {Choice(Line(<<>>), Line(<<>>), "ok")}

ExtPcs ==
    {"installer", "nd_mkdir", "nd_write", "px_write", "px_write_file",
     "ic_rm_cache", "ic_acme", "ic_mkdir", "ic_copy_cert", "ic_copy_key",
     "ic_nginx", "ic_reload", "ic_cron"}

PromptPcs ==
    {"nd_domain", "nd_cert_dir", "nd_output", "px", "px_backend", "px_domain",
     "px_cert_dir", "px_output", "ic_cf_token", "ic_cf_account_id",
     "ic_cf_zone_id", "ic_domain", "ic_wildcard", "ic_acme_bin",
     "ic_acme_home", "ic_cert_dir", "ic_nginx_bin"}

\* what the environment can answer at a step
Choices(pc) ==
    IF pc = "zsh_confirm"
    THEN {Choice(r, Line(<<>>), "ok") : r \in ConfirmReads}
    ELSE IF pc = "px_resolver"
    THEN {Choice(r1, r2, "ok") : r1 \in MenuReads, r2 \in CustomReads}
    ELSE IF pc \in PromptPcs
    THEN {Choice(r, Line(<<>>), "ok") : r \in CmdReads}
    ELSE IF pc \in ExtPcs
    THEN {Choice(Line(<<>>), Line(<<>>), e) : e \in Exts}
    ELSE NoChoice

\* what a step of a command leaves alone
inputs == <<env_overrides, process_env, rs, cli, args, tp>>

NoOverrides == [k \in {} |-> None]

----------------------------------------------------------------------------
(* setup as a run: SpecSetup *)

\* what id -u prints, or the failure to spawn it
Uids == {"0", "1000", "spawn_failed"}

\* /etc/os-release: unreadable, without an ID= line, or with an identifier
\* and with or without a VERSION_CODENAME= line
OsReleases ==
    {[readable |-> FALSE, id |-> None, codename |-> FALSE],
     [readable |-> TRUE, id |-> None, codename |-> FALSE],
     [readable |-> TRUE, id |-> Some("debian"), codename |-> TRUE],
     [readable |-> TRUE, id |-> Some("debian"), codename |-> FALSE],
     [readable |-> TRUE, id |-> Some("ubuntu"), codename |-> TRUE],
     [readable |-> TRUE, id |-> Some("alpine"), codename |-> FALSE],
     [readable |-> TRUE, id |-> Some("fedora"), codename |-> TRUE]}

SetupArgs ==
    {[command |-> "setup", install_zsh |-> z, install_cron |-> c,
      install_nginx |-> n, uid |-> u, path_cmds |-> p, os |-> o] :
        z \in BOOLEAN, c \in BOOLEAN, n \in BOOLEAN, u \in Uids,
        p \in SUBSET {"zsh", "crontab", "nginx"}, o \in OsReleases}

InitSetup ==
    /\ args \in SetupArgs
    /\ \E dry \in BOOLEAN : st = StartState("setup", dry)
    /\ env_overrides = NoOverrides
    /\ process_env = NoOverrides
    /\ rs = IdleRs
    /\ cli = IdleCli
    /\ tp = IdleTp

SetupEnsureRoot ==
    /\ st.pc = "setup"
    /\ \E ch \in Choices("setup") : st' = CommandStep(st, ch)
    /\ UNCHANGED inputs

SetupZsh ==
    /\ st.pc = "zsh"
    /\ \E ch \in Choices("zsh") : st' = CommandStep(st, ch)
    /\ UNCHANGED inputs

SetupZshConfirm ==
    /\ st.pc = "zsh_confirm"
    /\ \E ch \in Choices("zsh_confirm") : st' = CommandStep(st, ch)
    /\ UNCHANGED inputs

SetupCron ==
    /\ st.pc = "cron"
    /\ \E ch \in Choices("cron") : st' = CommandStep(st, ch)
    /\ UNCHANGED inputs

SetupNginx ==
    /\ st.pc = "nginx"
    /\ \E ch \in Choices("nginx") : st' = CommandStep(st, ch)
    /\ UNCHANGED inputs

SetupInstaller ==
    /\ st.pc = "installer"
    /\ \E ch \in Choices("installer") : st' = CommandStep(st, ch)
    /\ UNCHANGED inputs

SetupSummary ==
    /\ st.pc = "summary"
    /\ \E ch \in Choices("summary") : st' = CommandStep(st, ch)
    /\ UNCHANGED inputs


NextSetup ==
    \/ SetupEnsureRoot
    \/ SetupZsh
    \/ SetupZshConfirm
    \/ SetupCron
    \/ SetupNginx
    \/ SetupInstaller
    \/ SetupSummary

SpecSetup == InitSetup /\ [][NextSetup]_vars

----------------------------------------------------------------------------
(* Claims about setup *)

Range(seq) == {seq[i] : i \in DOMAIN seq}

IsPrefix(a, b) == Len(a) <= Len(b) /\ a = SubSeq(b, 1, Len(a))

CapIndex(c) == IF c = "zsh" THEN 1 ELSE IF c = "crontab" THEN 2 ELSE 3

CapEnabled(c) ==
    IF c = "zsh" THEN args.install_zsh
    ELSE IF c = "crontab" THEN args.install_cron
    ELSE args.install_nginx

\* the sub-steps carried out (a real run) or reported (a dry run) for c
StepsOf(c) ==
    {e.act : e \in {x \in Range(st.fx) \cup Range(st.intents) : x.cap = c}}

\* the install procedure of c on this host
ProcedureOf(c) ==
    IF c # "nginx" THEN InstallerOf(c)
    ELSE IF args.os.id \in {Some("debian"), Some("ubuntu")}
         THEN install_nginx_debian_like(Unwrap(args.os.id))
    ELSE IF args.os.id = Some("alpine") THEN install_nginx_alpine
    ELSE <<>>

\* every subprocess and file write of the procedure of c has happened
InstallRan(c) ==
    /\ ProcedureOf(c) # <<>>
    /\ \A i \in DOMAIN ProcedureOf(c) :
          ProcedureOf(c)[i].k \in {"run", "write"}
              => ProcedureOf(c)[i].act \in StepsOf(c)

HasEntry(c) == \E i \in DOMAIN st.changes : st.changes[i][2] = c

EntryFor(c) ==
    IF st.dry_run THEN <<"Would install", c>> ELSE <<"Installed", c>>

\* missing on the search path and, for zsh, confirmed
ToInstall(c) ==
    /\ CapEnabled(c)
    /\ st.exists[c] = Some(FALSE)
    /\ c = "zsh" => st.confirmed = Some(TRUE)

C8_State ==
    /\ \A c \in Range(Capabilities) :
          /\ st.exists[c] = Some(TRUE) => StepsOf(c) = {} /\ ~HasEntry(c)
          /\ StepsOf(c) # {} => ToInstall(c)
          /\ HasEntry(c) => ToInstall(c) /\ InstallRan(c)
          /\ (st.pc = "done" /\ st.result = "ok" /\ ToInstall(c))
                => InstallRan(c) /\ EntryFor(c) \in Range(st.changes)
          /\ st.exists[c] # None =>
                \A b \in Range(Capabilities) :
                    (CapIndex(b) < CapIndex(c) /\ CapEnabled(b))
                        => st.exists[b] # None
    /\ \A i \in DOMAIN st.changes : st.changes[i] = EntryFor(st.changes[i][2])
    /\ \A i, j \in DOMAIN st.changes :
          i < j => CapIndex(st.changes[i][2]) < CapIndex(st.changes[j][2])

C8_AppendOnly ==
    /\ IsPrefix(st.changes, st'.changes)
    /\ Len(st'.changes) <= Len(st.changes) + 1

\* C8: setup handles its enabled capabilities in the order zsh, crontab,
\* nginx.  A capability that the probe finds gets no install sub-step and no
\* change-log entry.  A capability that is missing (and, for zsh, confirmed)
\* gets its install procedure, and once the procedure has succeeded exactly
\* one entry: "Would install X" in a dry run, "Installed X" in a real run.
\* The change log only grows, by one entry at a time, and holds at most one
\* entry per capability.
C8_InstallIfMissing == []C8_State /\ [][C8_AppendOnly]_vars

\* a real run that found crontab, installed zsh and nginx and logged both
C8_Witness ==
    /\ st.pc = "done" /\ st.result = "ok" /\ ~st.dry_run
    /\ st.exists = [c \in {"zsh", "crontab", "nginx"} |->
                       IF c = "crontab" THEN Some(TRUE) ELSE Some(FALSE)]
    /\ st.changes = <<<<"Installed", "zsh">>, <<"Installed", "nginx">>>>

C9_State ==
    /\ \A i \in DOMAIN st.fx :
          st.fx[i].status # "ok"
              => i = Len(st.fx) /\ st.pc = "done" /\ st.result # "ok"
    /\ (st.pc = "done" /\ st.result # "ok" /\ st.cap # "-") =>
          /\ ~HasEntry(st.cap)
          /\ \A j \in DOMAIN st.todo :
                st.todo[j].k \in {"run", "write"}
                    => st.todo[j].act \notin StepsOf(st.cap)
          /\ \A c \in Range(Capabilities) :
                CapIndex(c) > CapIndex(st.cap)
                    => st.exists[c] = None /\ StepsOf(c) = {}
    /\ \A i, j \in DOMAIN st.fx :
          i < j => CapIndex(st.fx[i].cap) <= CapIndex(st.fx[j].cap)

\* C9: a failing install sub-step of setup (a non-zero exit, a subprocess
\* that cannot be spawned, a filesystem error, an unreadable OS descriptor,
\* an unsupported OS identifier) ends the run with an error at that point:
\* a sub-step with a non-zero exit is the last thing the run did, the rest
\* of the failed capability's procedure and every later capability are
\* never started, the failed capability gets no change-log entry, the steps
\* of one capability never interleave with another's, and a run that has
\* ended takes no further step.
C9_FailureAborts == []C9_State /\ [][st.pc # "done"]_vars

\* zsh installed, then a sub-step of the crontab procedure exits non-zero
\* with sub-steps left and nginx still to come
C9_Witness ==
    /\ st.pc = "done" /\ st.result = "Command failed"
    /\ st.cap = "crontab" /\ st.todo # <<>>
    /\ args.install_nginx /\ "nginx" \notin args.path_cmds
    /\ st.changes = <<<<"Installed", "zsh">>>>
    /\ st.fx[Len(st.fx)].status = "exit_nonzero"

PreconditionErrors ==
    {"This command must be run as root", "Failed to read /etc/os-release",
     "Unsupported OS for nginx install"}

\* C10: a precondition error of a setup run (missing privilege, unreadable
\* OS descriptor, unsupported OS identifier) is returned before the run has
\* carried out any mutating action.
C10_PreconditionErrorsBeforeMutation ==
    (st.pc = "done" /\ st.result \in PreconditionErrors) => st.fx = <<>>

----------------------------------------------------------------------------
(* write-nginx-default as a run: SpecNginxDefault *)

CertFile == <<"/", "tls", "/", "site.pem">>
KeyFile == <<"/", "tls", "/", "site.key">>
FooCom == <<"foo.com">>
ProxyFooCom == <<"proxy.foo.com">>

NginxDefaultArgs ==
    {[command |-> "write-nginx-default", cert_path |-> c, key_path |-> k,
      domain |-> d, cert_dir_name |-> n, output_path |-> o] :
        c \in {None, Some(CertFile)}, k \in {None, Some(KeyFile)},
        d \in {None, Some(FooCom)}, n \in {None, Some(<<"mine">>)},
        o \in {None, Some(<<"/", "out", "/", "default.conf">>)}}

InitNginxDefault ==
    /\ args \in NginxDefaultArgs
    /\ \E dry \in BOOLEAN : st = StartState("nd", dry)
    /\ env_overrides \in
          {[k \in {"NGINX_CERT_PATH", "NGINX_KEY_PATH", "DOMAIN"} |->
               IF k = "NGINX_CERT_PATH" THEN c
               ELSE IF k = "NGINX_KEY_PATH" THEN y ELSE d] :
              c \in {None, Some(CertFile), Some(<<" ">>)},
              y \in {None, Some(KeyFile)}, d \in {None, Some(FooCom)}}
    /\ process_env \in
          [NGINX_CERT_PATH : {None, Some(CertFile)},
           NGINX_KEY_PATH : {None, Some(KeyFile)}]
    /\ rs = IdleRs
    /\ cli = IdleCli
    /\ tp = IdleTp

NdCertKeyOptions ==
    /\ st.pc = "nd"
    /\ \E ch \in Choices("nd") : st' = CommandStep(st, ch)
    /\ UNCHANGED inputs

NdDomain ==
    /\ st.pc = "nd_domain"
    /\ \E ch \in Choices("nd_domain") : st' = CommandStep(st, ch)
    /\ UNCHANGED inputs

NdCertDir ==
    /\ st.pc = "nd_cert_dir"
    /\ \E ch \in Choices("nd_cert_dir") : st' = CommandStep(st, ch)
    /\ UNCHANGED inputs

NdCertPaths ==
    /\ st.pc = "nd_cert_paths"
    /\ \E ch \in Choices("nd_cert_paths") : st' = CommandStep(st, ch)
    /\ UNCHANGED inputs

NdOutput ==
    /\ st.pc = "nd_output"
    /\ \E ch \in Choices("nd_output") : st' = CommandStep(st, ch)
    /\ UNCHANGED inputs

NdMkdir ==
    /\ st.pc = "nd_mkdir"
    /\ \E ch \in Choices("nd_mkdir") : st' = CommandStep(st, ch)
    /\ UNCHANGED inputs

NdWrite ==
    /\ st.pc = "nd_write"
    /\ \E ch \in Choices("nd_write") : st' = CommandStep(st, ch)
    /\ UNCHANGED inputs

NextNginxDefault ==
    \/ NdCertKeyOptions
    \/ NdDomain
    \/ NdCertDir
    \/ NdCertPaths
    \/ NdOutput
    \/ NdMkdir
    \/ NdWrite

SpecNginxDefault == InitNginxDefault /\ [][NextNginxDefault]_vars

----------------------------------------------------------------------------
(* write-proxy-config as a run: SpecProxy *)

ProxyArgs ==
    {[command |-> "write-proxy-config", proxy_domain |-> p, backend_url |-> b,
      resolvers |-> r, cert_path |-> c, key_path |-> k, cert_dir |-> d,
      cert_dir_name |-> None, output_dir |-> o] :
        p \in {None, Some(ProxyFooCom)},
        b \in {None, Some(<<"https://emby.foo.com:443">>)},
        r \in {<<>>, <<<<"9.9.9.9">>, <<"149.112.112.112">>>>},
        c \in {None, Some(CertFile)}, k \in {None, Some(KeyFile)},
        d \in {None, Some(<<"/", "certs">>)},
        o \in {None, Some(<<"/", "out">>)}}

InitProxy ==
    /\ args \in ProxyArgs
    /\ \E dry \in BOOLEAN : st = StartState("px", dry)
    /\ env_overrides \in
          {[k \in {"DOMAIN", "RESOLVER"} |-> IF k = "DOMAIN" THEN d ELSE r] :
              d \in {None, Some(FooCom)}, r \in {None, Some(RESOLVER_GOOGLE)}}
    /\ process_env \in [RESOLVER : {None, Some(RESOLVER_ALI)}]
    /\ rs = IdleRs
    /\ cli = IdleCli
    /\ tp = IdleTp

PxProxyDomain ==
    /\ st.pc = "px"
    /\ \E ch \in Choices("px") : st' = CommandStep(st, ch)
    /\ UNCHANGED inputs

PxBackend ==
    /\ st.pc = "px_backend"
    /\ \E ch \in Choices("px_backend") : st' = CommandStep(st, ch)
    /\ UNCHANGED inputs

PxResolver ==
    /\ st.pc = "px_resolver"
    /\ \E ch \in Choices("px_resolver") : st' = CommandStep(st, ch)
    /\ UNCHANGED inputs

PxCertKeyOptions ==
    /\ st.pc = "px_paths"
    /\ \E ch \in Choices("px_paths") : st' = CommandStep(st, ch)
    /\ UNCHANGED inputs

PxDomain ==
    /\ st.pc = "px_domain"
    /\ \E ch \in Choices("px_domain") : st' = CommandStep(st, ch)
    /\ UNCHANGED inputs

PxCertDir ==
    /\ st.pc = "px_cert_dir"
    /\ \E ch \in Choices("px_cert_dir") : st' = CommandStep(st, ch)
    /\ UNCHANGED inputs

PxCertPaths ==
    /\ st.pc = "px_cert_paths"
    /\ \E ch \in Choices("px_cert_paths") : st' = CommandStep(st, ch)
    /\ UNCHANGED inputs

PxOutput ==
    /\ st.pc = "px_output"
    /\ \E ch \in Choices("px_output") : st' = CommandStep(st, ch)
    /\ UNCHANGED inputs

PxWrite ==
    /\ st.pc = "px_write"
    /\ \E ch \in Choices("px_write") : st' = CommandStep(st, ch)
    /\ UNCHANGED inputs

PxWriteFile ==
    /\ st.pc = "px_write_file"
    /\ \E ch \in Choices("px_write_file") : st' = CommandStep(st, ch)
    /\ UNCHANGED inputs

NextProxy ==
    \/ PxProxyDomain
    \/ PxBackend
    \/ PxResolver
    \/ PxCertKeyOptions
    \/ PxDomain
    \/ PxCertDir
    \/ PxCertPaths
    \/ PxOutput
    \/ PxWrite
    \/ PxWriteFile

SpecProxy == InitProxy /\ [][NextProxy]_vars

----------------------------------------------------------------------------
(* Claims about the template commands *)

\* the map m holds a non-blank value under key
UsableAt(m, key) == key \in DOMAIN m /\ Usable(m[key])

\* supplied by flag, by the OverrideMap or by the process environment
CertSupplied ==
    \/ IsSome(args.cert_path)
    \/ UsableAt(env_overrides, "NGINX_CERT_PATH")
    \/ UsableAt(process_env, "NGINX_CERT_PATH")

KeySupplied ==
    \/ IsSome(args.key_path)
    \/ UsableAt(env_overrides, "NGINX_KEY_PATH")
    \/ UsableAt(process_env, "NGINX_KEY_PATH")

ActsOf(log) == {log[i].act : i \in DOMAIN log}

\* C4: when write-nginx-default ends up with exactly one of the certificate
\* path and the key path (by flag, OverrideMap or environment), then for
\* every domain and certificate-directory input the run never succeeds, it
\* creates and writes nothing and reports no write, the missing half is
\* never given a value, and the run ends with the error "Both cert and key
\* paths must be set together" (or, when the read of a prompt for the
\* domain or the directory name itself fails, with that prompt's error).
C4_HalfPairFails ==
    (CertSupplied # KeySupplied) =>
        /\ st.result # "ok"
        /\ st.fx = <<>> /\ st.intents = <<>>
        /\ ~CertSupplied => st.loc["cert_path"] = None
        /\ ~KeySupplied => st.loc["key_path"] = None
        /\ st.pc \notin {"nd_output", "nd_mkdir", "nd_write"}
        /\ st.pc = "done" =>
              IF ReadError \in Range(st.reads)
              THEN st.result = "Prompt failed"
              ELSE st.result = "Both cert and key paths must be set together"

\* only the certificate path is supplied; the domain and the directory
\* name were both resolved before the pair was rejected
C4_Witness ==
    /\ st.pc = "done"
    /\ st.result = "Both cert and key paths must be set together"
    /\ CertSupplied /\ ~KeySupplied
    /\ args.domain = None /\ IsSome(st.loc["domain"])
    /\ IsSome(st.loc["cert_dir"])

\* C5: write-proxy-config with no explicit certificate or key path names
\* the derived pair after the domain resolved from the DOMAIN key: with
\* DOMAIN=foo.com in the OverrideMap the pair is <cert_dir>/foo.com.cer and
\* <cert_dir>/foo.com.key.
C5_DerivedPairNamedAfterDomainKey ==
    (/\ st.pc = "done" /\ st.result = "ok"
     /\ ~CertSupplied /\ ~KeySupplied
     /\ UsableAt(env_overrides, "DOMAIN")) =>
        LET domain == Unwrap(env_overrides["DOMAIN"])
            cert_dir == Unwrap(st.loc["cert_dir"])
        IN  /\ st.loc["cert_path"] = Some(PathJoin(cert_dir, domain \o <<".cer">>))
            /\ st.loc["key_path"] = Some(PathJoin(cert_dir, domain \o <<".key">>))

----------------------------------------------------------------------------
(* issue-cert as a run: SpecIssueCert *)

IssueCertArgs ==
    {[command |-> "issue-cert", cf_token |-> t,
      cf_account_id |-> Some(<<"account">>), cf_zone_id |-> Some(<<"zone">>),
      domain |-> d, wildcard_domain |-> w,
      acme_bin |-> Some(<<"/", "opt", "/", "acme.sh">>),
      acme_home |-> Some(<<"/", "opt", "/", "acme">>),
      cert_dir |-> cd, cert_dir_name |-> Some(<<"mine">>),
      cert_output_path |-> co, key_output_path |-> ko,
      nginx_bin |-> nb, reload_nginx |-> rl, uid |-> u, path_cmds |-> pc] :
        t \in {None, Some(<<"token">>)}, d \in {None, Some(FooCom)},
        w \in {None, Some(<<"*.foo.com">>)},
        cd \in {None, Some(<<"/", "certs">>)},
        co \in {None, Some(CertFile)}, ko \in {None, Some(KeyFile)},
        nb \in {None, Some(<<"nginx">>)}, rl \in BOOLEAN,
        u \in {"0", "1000"}, pc \in {{}, {"crontab"}}}

InitIssueCert ==
    /\ args \in IssueCertArgs
    /\ \E dry \in BOOLEAN : st = StartState("ic", dry)
    /\ env_overrides \in
          {[k \in {"CERT_OUTPUT_PATH"} |-> c] : c \in {None, Some(CertFile)}}
    /\ process_env \in
          {[k \in {"KEY_OUTPUT_PATH"} |-> c] : c \in {None, Some(KeyFile)}}
    /\ rs = IdleRs
    /\ cli = IdleCli
    /\ tp = IdleTp

IcEnsureRoot ==
    /\ st.pc = "ic"
    /\ \E ch \in Choices("ic") : st' = CommandStep(st, ch)
    /\ UNCHANGED inputs

IcCfToken ==
    /\ st.pc = "ic_cf_token"
    /\ \E ch \in Choices("ic_cf_token") : st' = CommandStep(st, ch)
    /\ UNCHANGED inputs

IcCfAccountId ==
    /\ st.pc = "ic_cf_account_id"
    /\ \E ch \in Choices("ic_cf_account_id") : st' = CommandStep(st, ch)
    /\ UNCHANGED inputs

IcCfZoneId ==
    /\ st.pc = "ic_cf_zone_id"
    /\ \E ch \in Choices("ic_cf_zone_id") : st' = CommandStep(st, ch)
    /\ UNCHANGED inputs

IcDomain ==
    /\ st.pc = "ic_domain"
    /\ \E ch \in Choices("ic_domain") : st' = CommandStep(st, ch)
    /\ UNCHANGED inputs

IcWildcard ==
    /\ st.pc = "ic_wildcard"
    /\ \E ch \in Choices("ic_wildcard") : st' = CommandStep(st, ch)
    /\ UNCHANGED inputs

IcAcmeBin ==
    /\ st.pc = "ic_acme_bin"
    /\ \E ch \in Choices("ic_acme_bin") : st' = CommandStep(st, ch)
    /\ UNCHANGED inputs

IcAcmeHome ==
    /\ st.pc = "ic_acme_home"
    /\ \E ch \in Choices("ic_acme_home") : st' = CommandStep(st, ch)
    /\ UNCHANGED inputs

IcCertDir ==
    /\ st.pc = "ic_cert_dir"
    /\ \E ch \in Choices("ic_cert_dir") : st' = CommandStep(st, ch)
    /\ UNCHANGED inputs

IcOutPaths ==
    /\ st.pc = "ic_out_paths"
    /\ \E ch \in Choices("ic_out_paths") : st' = CommandStep(st, ch)
    /\ UNCHANGED inputs

IcNginxBin ==
    /\ st.pc = "ic_nginx_bin"
    /\ \E ch \in Choices("ic_nginx_bin") : st' = CommandStep(st, ch)
    /\ UNCHANGED inputs

IcRmCache ==
    /\ st.pc = "ic_rm_cache"
    /\ \E ch \in Choices("ic_rm_cache") : st' = CommandStep(st, ch)
    /\ UNCHANGED inputs

IcAcme ==
    /\ st.pc = "ic_acme"
    /\ \E ch \in Choices("ic_acme") : st' = CommandStep(st, ch)
    /\ UNCHANGED inputs

IcMkdir ==
    /\ st.pc = "ic_mkdir"
    /\ \E ch \in Choices("ic_mkdir") : st' = CommandStep(st, ch)
    /\ UNCHANGED inputs

IcCopyCert ==
    /\ st.pc = "ic_copy_cert"
    /\ \E ch \in Choices("ic_copy_cert") : st' = CommandStep(st, ch)
    /\ UNCHANGED inputs

IcCopyKey ==
    /\ st.pc = "ic_copy_key"
    /\ \E ch \in Choices("ic_copy_key") : st' = CommandStep(st, ch)
    /\ UNCHANGED inputs

IcNginx ==
    /\ st.pc = "ic_nginx"
    /\ \E ch \in Choices("ic_nginx") : st' = CommandStep(st, ch)
    /\ UNCHANGED inputs

IcReload ==
    /\ st.pc = "ic_reload"
    /\ \E ch \in Choices("ic_reload") : st' = CommandStep(st, ch)
    /\ UNCHANGED inputs

IcCron ==
    /\ st.pc = "ic_cron"
    /\ \E ch \in Choices("ic_cron") : st' = CommandStep(st, ch)
    /\ UNCHANGED inputs

NextIssueCert ==
    \/ IcEnsureRoot
    \/ IcCfToken
    \/ IcCfAccountId
    \/ IcCfZoneId
    \/ IcDomain
    \/ IcWildcard
    \/ IcAcmeBin
    \/ IcAcmeHome
    \/ IcCertDir
    \/ IcOutPaths
    \/ IcNginxBin
    \/ IcRmCache
    \/ IcAcme
    \/ IcMkdir
    \/ IcCopyCert
    \/ IcCopyKey
    \/ IcNginx
    \/ IcReload
    \/ IcCron

SpecIssueCert == InitIssueCert /\ [][NextIssueCert]_vars

----------------------------------------------------------------------------
(* The four commands: Spec *)

Init == InitSetup \/ InitIssueCert \/ InitNginxDefault \/ InitProxy

Next == NextSetup \/ NextIssueCert \/ NextNginxDefault \/ NextProxy

Spec == Init /\ [][Next]_vars

----------------------------------------------------------------------------
(* The dry run against the real run *)

StartPc ==
    CASE args.command = "setup" -> "setup"
      [] args.command = "issue-cert" -> "ic"
      [] args.command = "write-nginx-default" -> "nd"
      [] args.command = "write-proxy-config" -> "px"

\* what the environment answers in the real run that corresponds to a dry
\* run: the prompts read the lines the dry run read, in order; the
\* confirmation, which the dry run does not ask, stays unanswered; every
\* external action succeeds
RealChoice(s, script) ==
    IF s.pc = "zsh_confirm" THEN Choice(TimedOut, Line(<<>>), "ok")
    ELSE Choice(IF Len(script) >= 1 THEN script[1] ELSE Line(<<>>),
                IF Len(script) >= 2 THEN script[2] ELSE Line(<<>>),
                "ok")

\* the real run, from the state s, on the lines of script
RECURSIVE Replay(_, _)
Replay(s, script) ==
    IF s.pc = "done" THEN s
    ELSE LET next == CommandStep(s, RealChoice(s, script))
             used == IF s.pc = "zsh_confirm" THEN 0
                     ELSE Len(next.reads) - Len(s.reads)
         IN  Replay(next, SubSeq(script, used + 1, Len(script)))

RealRun == Replay(StartState(StartPc, FALSE), st.reads)

\* nothing was created, written, copied, renamed or removed, no subprocess
\* was run, the job table was not touched
DryRunMutatesNothing == st.fx = <<>>

\* every action of the real run is among the reported intents
DryRunReportsAll ==
    \A e \in Range(RealRun.fx) :
        [cap |-> e.cap, act |-> e.act] \in Range(st.intents)

\* C3: a dry run of any of the four commands, on every path, performs no
\* mutating action, and a dry run that completes has reported every
\* mutating action that the real run on the same inputs performs.
C3_DryRunFaithful ==
    st.dry_run =>
        /\ DryRunMutatesNothing
        /\ (st.pc = "done" /\ st.result = "ok") => DryRunReportsAll

\* the first half alone
NoMutationInDryRun == st.dry_run => DryRunMutatesNothing

----------------------------------------------------------------------------
(* A timed prompt in time: SpecTimed.  The caller creates a channel, spawns *)
(* a reader thread that blocks in read_line and sends the line, and waits  *)
(* in recv_timeout.  tp.clock counts the seconds waited.                   *)

TimedCallers == {"setup_system", "write_proxy_config", "resolve_resolvers"}

TimeoutOf(caller) ==
    IF caller = "setup_system" THEN DEFAULT_CONFIRM_TIMEOUT
    ELSE RESOLVER_TIMEOUT_SECS

\* the default the caller hands to the resolver menu
DefaultOf(caller) ==
    IF caller = "write_proxy_config" THEN DEFAULT_RESOLVER ELSE <<"dflt">>

\* lines typed at a timed prompt
TypedLines ==
    {<<>>, <<"y">>, <<"n">>, <<"2">>, <<" ", "5">>, <<"9">>}

TimedArgs ==
    {[command |-> "timed prompt", caller |-> c, dry_run |-> d, resolvers |-> r] :
        c \in TimedCallers, d \in BOOLEAN, r \in {<<>>, <<<<"9.9.9.9">>>>}}

InitTimed ==
    /\ args \in TimedArgs
    /\ env_overrides \in
          {[k \in {"RESOLVER"} |-> r] : r \in {None, Some(RESOLVER_GOOGLE)}}
    /\ process_env \in
          {[k \in {"RESOLVER"} |-> r] : r \in {None, Some(RESOLVER_ALI), Some(<<" ">>)}}
    /\ tp = [phase |-> "idle", clock |-> 0, reader |-> "unborn", buf |-> <<>>,
             chan |-> <<>>, outcome |-> None, result |-> None]
    /\ rs = IdleRs
    /\ cli = IdleCli
    /\ st = IdleSt

\* the call reaches its timed receive
Prompts ==
    IF args.caller = "setup_system" THEN ~args.dry_run
    ELSE resolve_resolvers(args.resolvers, env_overrides, "RESOLVER",
                           DefaultOf(args.caller), TimedOut, Line(<<>>)).prompts > 0

\* what the call returns given the outcome of the timed receive
TimedResult(outcome, read2) ==
    IF args.caller = "setup_system"
    THEN confirm_with_timeout(args.dry_run, outcome)
    ELSE resolve_resolvers(args.resolvers, env_overrides, "RESOLVER",
                           DefaultOf(args.caller), outcome, read2)

\* the call: it returns at once when it has no need of the prompt, else it
\* spawns the reader and starts to wait
TpCall ==
    /\ tp.phase = "idle"
    /\ tp' = IF Prompts
             THEN [tp EXCEPT !.phase = "waiting", !.reader = "blocked"]
             ELSE [tp EXCEPT !.phase = "returned",
                             !.result = Some(TimedResult(TimedOut, Line(<<>>)))]
    /\ UNCHANGED <<env_overrides, process_env, rs, cli, args, st>>

\* the reader's read_line returns: a line was typed (or the read failed and
\* left the buffer empty)
TpReaderRead ==
    /\ tp.reader = "blocked"
    /\ \E l \in TypedLines : tp' = [tp EXCEPT !.reader = "read", !.buf = l]
    /\ UNCHANGED <<env_overrides, process_env, rs, cli, args, st>>

\* tx.send(input); the result of the send is ignored
TpReaderSend ==
    /\ tp.reader = "read"
    /\ tp' = [tp EXCEPT !.reader = "exited",
                        !.chan = IF tp.phase = "waiting" THEN <<tp.buf>> ELSE @]
    /\ UNCHANGED <<env_overrides, process_env, rs, cli, args, st>>

\* a second passes while the caller waits
TpTick ==
    /\ tp.phase = "waiting"
    /\ tp.clock < TimeoutOf(args.caller)
    /\ tp' = [tp EXCEPT !.clock = @ + 1]
    /\ UNCHANGED <<env_overrides, process_env, rs, cli, args, st>>

\* recv_timeout returns Ok(input)
TpRecv ==
    /\ tp.phase = "waiting"
    /\ tp.chan # <<>>
    /\ tp' = [tp EXCEPT !.phase = "received", !.outcome = Some(Line(tp.chan[1])),
                        !.chan = <<>>]
    /\ UNCHANGED <<env_overrides, process_env, rs, cli, args, st>>

\* recv_timeout returns Err(Timeout)
TpTimeout ==
    /\ tp.phase = "waiting"
    /\ tp.chan = <<>>
    /\ tp.clock = TimeoutOf(args.caller)
    /\ tp' = [tp EXCEPT !.phase = "received", !.outcome = Some(TimedOut)]
    /\ UNCHANGED <<env_overrides, process_env, rs, cli, args, st>>

\* the choice 5 of the menu goes on to the blocking custom prompt
AsksCustom ==
    /\ args.caller # "setup_system"
    /\ Unwrap(tp.outcome).kind = "line"
    /\ Trim(Unwrap(tp.outcome).line) = <<"5">>

\* the rest of the function after the receive
TpReturn ==
    /\ tp.phase = "received"
    /\ tp' = IF AsksCustom THEN [tp EXCEPT !.phase = "custom"]
             ELSE [tp EXCEPT !.phase = "returned",
                             !.result = Some(TimedResult(Unwrap(tp.outcome),
                                                         Line(<<>>)))]
    /\ UNCHANGED <<env_overrides, process_env, rs, cli, args, st>>

\* the blocking read of the custom resolver list returns
TpCustom ==
    /\ tp.phase = "custom"
    /\ \E read2 \in CustomReads :
          tp' = [tp EXCEPT !.phase = "returned",
                           !.result = Some(TimedResult(Unwrap(tp.outcome), read2))]
    /\ UNCHANGED <<env_overrides, process_env, rs, cli, args, st>>

NextTimed ==
    \/ TpCall
    \/ TpReaderRead
    \/ TpReaderSend
    \/ TpTick
    \/ TpRecv
    \/ TpTimeout
    \/ TpReturn
    \/ TpCustom

\* the clock advances and the threads of the program are scheduled; nobody
\* is obliged to type
SpecTimed ==
    /\ InitTimed
    /\ [][NextTimed]_vars
    /\ WF_vars(TpCall)
    /\ WF_vars(TpTick)
    /\ WF_vars(TpRecv \/ TpTimeout)
    /\ WF_vars(TpReturn)
    /\ WF_vars(TpReaderSend)

----------------------------------------------------------------------------
(* Claims about the timed prompts *)

CloudflareList ==
    <<"1.1.1.1", " ", "1.0.0.1", " ", "[2606:4700:4700::1111]", " ",
      "[2606:4700:4700::1064]">>

\* the call returned after a receive that timed out
TimedOutReturn == tp.phase = "returned" /\ tp.outcome = Some(TimedOut)

C7_State ==
    /\ tp.phase = "waiting" => tp.clock <= TimeoutOf(args.caller)
    /\ tp.outcome = Some(TimedOut) =>
          tp.clock = TimeoutOf(args.caller) /\ TimeoutOf(args.caller) = 10
    /\ TimedOutReturn =>
          /\ Unwrap(tp.result).ok
          /\ args.caller = "setup_system" => Unwrap(tp.result).val = FALSE
          /\ args.caller # "setup_system"
                => Unwrap(tp.result).val = DefaultOf(args.caller)
    /\ (/\ args.caller = "write_proxy_config" /\ args.resolvers = <<>>
        /\ ~UsableAt(env_overrides, "RESOLVER")
        /\ ~UsableAt(process_env, "RESOLVER")
        /\ tp.phase = "returned") =>
          /\ tp.outcome # None
          /\ tp.outcome = Some(TimedOut)
                => Unwrap(tp.result) = Ok(CloudflareList, 1)

\* C7: a timed prompt returns instead of blocking.  The wait of the caller
\* always ends, the receive times out only when the timeout (10 seconds)
\* has passed with nothing on the channel, and the call then returns: false
\* from the confirmation, the caller's default from the resolver menu.  In
\* write-proxy-config with no --resolver and no RESOLVER value in the
\* OverrideMap or the environment, the call that got no input returns
\* "1.1.1.1 1.0.0.1 [2606:4700:4700::1111] [2606:4700:4700::1064]".
C7_TimedPromptReturns ==
    /\ []C7_State
    /\ (tp.phase = "waiting") ~> (tp.phase # "waiting")
    /\ (tp.outcome = Some(TimedOut)) ~> (tp.phase = "returned")

\* write-proxy-config returned the default list after ten seconds of
\* silence, its reader still blocked in read_line
C7_Witness ==
    /\ TimedOutReturn
    /\ args.caller = "write_proxy_config"
    /\ tp.clock = 10 /\ tp.reader = "blocked"
    /\ Unwrap(tp.result).val = CloudflareList

----------------------------------------------------------------------------
(* Claims about the privilege check *)

RootGated == args.command \in {"setup", "issue-cert"}

\* the command has done nothing but (possibly) check the uid
OnlyChecked ==
    [st EXCEPT !.pc = StartPc, !.result = "running", !.root_checks = 0]
        = StartState(StartPc, st.dry_run)

\* C11: setup and issue-cert check the uid exactly once, as their first
\* step: until the check has been made nothing is resolved, prompted,
\* probed or mutated, and a process that is not root (or whose uid cannot
\* be read) gets an error and nothing else happens.
C11_RootCheckedOnceAtEntry ==
    RootGated =>
        /\ st.root_checks <= 1
        /\ st.root_checks = 0 <=> st.pc = StartPc
        /\ st.pc = StartPc => OnlyChecked
        /\ args.uid # "0" =>
              /\ OnlyChecked
              /\ st.pc \in {StartPc, "done"}
              /\ st.pc = "done" =>
                    st.result = IF args.uid = "spawn_failed"
                                THEN "Failed to check uid"
                                ELSE "This command must be run as root"

\* issue-cert refused to a non-root caller, with every flag left unread
C11_Witness ==
    /\ args.command = "issue-cert" /\ args.uid = "1000"
    /\ args.cf_token = None
    /\ st.pc = "done" /\ st.result = "This command must be run as root"
    /\ st.root_checks = 1 /\ st.reads = <<>>

----------------------------------------------------------------------------
(* Claims about the zsh confirmation *)

\* the answers that confirm: y or yes in any letter case, spaces around
Affirmative(read) ==
    /\ read.kind = "line"
    /\ \E word \in {"y", "Y", "yes", "YES", "Yes"} : Trim(read.line) = <<word>>

\* the confirmation was asked and the answer read is not a yes
Declined ==
    /\ st.reads # <<>>
    /\ st.reads[1].kind \in {"line", "timeout"}
    /\ ~Affirmative(st.reads[1])

C12_State ==
    /\ Len(st.reads) <= 1
    /\ st.reads # <<>> =>
          /\ ~st.dry_run /\ args.install_zsh
          /\ st.exists["zsh"] = Some(FALSE)
    /\ (Declined \/ st.confirmed = Some(FALSE)) =>
          /\ st.confirmed = Some(FALSE)
          /\ StepsOf("zsh") = {}
          /\ ~HasEntry("zsh")
          /\ (st.pc = "done" /\ st.cap = "zsh") => st.result = "ok"
    /\ \A c \in {"crontab", "nginx"} :
          (st.pc = "done" /\ st.result = "ok" /\ CapEnabled(c)
              /\ st.exists[c] = Some(FALSE)) => HasEntry(c)

\* the crontab and nginx steps read no answer and go straight from the
\* probe to the install procedure
C12_Ungated ==
    st.pc \in {"cron", "nginx"} =>
        /\ st'.reads = st.reads
        /\ st'.confirmed = st.confirmed
        /\ (st'.cap \in {"crontab", "nginx"} /\ st'.cap # st.cap
              /\ st'.exists[st'.cap] = Some(FALSE))
              => st'.pc = "installer"

\* C12: the zsh install is gated by the confirmation: a "no", any answer
\* other than y or yes (in any letter case), or a confirmation that timed
\* out skips the install, runs no zsh sub-step, appends nothing to the
\* change log and lets the run go on.  crontab and nginx are never gated:
\* their steps ask nothing, and a missing one is installed whatever the
\* answer for zsh was.
C12_DeclinedZshSkipped == []C12_State /\ [][C12_Ungated]_vars

\* zsh declined with "n"; crontab, missing, installed all the same
C12_Witness ==
    /\ st.pc = "done" /\ st.result = "ok"
    /\ st.reads = <<Line(<<"n">>)>>
    /\ st.confirmed = Some(FALSE)
    /\ st.changes = <<<<"Installed", "crontab">>>>

----------------------------------------------------------------------------
(* The dry run of setup against the real run that confirms everything *)

\* the real setup run in which the confirmation is answered y and every
\* external action succeeds
RECURSIVE ReplayConfirmed(_)
ReplayConfirmed(s) ==
    IF s.pc = "done" THEN s
    ELSE ReplayConfirmed(SetupStep(s, Choice(Line(<<"y">>), Line(<<>>), "ok")))

\* the capabilities of a change log, in its order
LoggedCaps(changes) == [i \in DOMAIN changes |-> changes[i][2]]

\* C13: on the same probe results and OS identity a dry run of setup takes
\* the branches of the real run in which every confirmation is answered
\* yes and every command succeeds: the capabilities logged "Would install"
\* by the dry run are, in the same order, the capabilities logged
\* "Installed" by that real run.
C13_DryRunSameBranches ==
    (st.dry_run /\ st.pc = "done") =>
        LET real == ReplayConfirmed(StartState("setup", FALSE))
        IN  /\ LoggedCaps(st.changes) = LoggedCaps(real.changes)
            /\ \A i \in DOMAIN st.changes : st.changes[i][1] = "Would install"
            /\ \A i \in DOMAIN real.changes : real.changes[i][1] = "Installed"

----------------------------------------------------------------------------
(* Claims about the steps of issue-cert *)

IssueOrder ==
    <<"remove cache dir", "acme.sh --issue", "create cert dir", "copy cert",
      "copy key", "nginx -t", "nginx -s reload", "crontab -">>

\* position of an external step in the order of issue-cert
IssueIndex(act) == CHOOSE i \in DOMAIN IssueOrder : IssueOrder[i] = act

\* the step was carried out and succeeded
Succeeded(act) ==
    \E i \in DOMAIN st.fx : st.fx[i].act = act /\ st.fx[i].status = "ok"

C14_State ==
    /\ \A i \in DOMAIN st.fx : st.fx[i].act \in Range(IssueOrder)
    /\ \A i, j \in DOMAIN st.fx :
          i < j => IssueIndex(st.fx[i].act) < IssueIndex(st.fx[j].act)
    /\ \A i \in DOMAIN st.fx :
          st.fx[i].status # "ok"
              => i = Len(st.fx) /\ st.pc = "done" /\ st.result # "ok"
    /\ \A i \in DOMAIN st.fx :
          /\ IssueIndex(st.fx[i].act) > 2 => Succeeded("acme.sh --issue")
          /\ IssueIndex(st.fx[i].act) > 4 => Succeeded("copy cert")
          /\ IssueIndex(st.fx[i].act) > 5 => Succeeded("copy key")
          /\ st.fx[i].act = "nginx -s reload" => Succeeded("nginx -t")
          /\ (st.fx[i].act = "crontab -" /\ args.reload_nginx)
                => Succeeded("nginx -s reload")
    /\ (st.pc = "done" /\ st.result = "ok" /\ ~st.dry_run) =>
          /\ Succeeded("acme.sh --issue")
          /\ Succeeded("copy cert") /\ Succeeded("copy key")
          /\ args.reload_nginx
                => Succeeded("nginx -t") /\ Succeeded("nginx -s reload")

\* what was done stays done, and a run that returned does nothing more
C14_NoRollback == IsPrefix(st.fx, st'.fx) /\ st.pc # "done"

\* C14: a real issue-cert carries out its external steps in the order
\* remove cache directory, ACME client, create destination directory, copy
\* certificate, copy key, nginx -t, nginx -s reload, renewal job.  A step
\* that fails is the last step of the run and the run returns an error:
\* nothing is copied unless the issuance succeeded, nginx is reloaded only
\* after nginx -t succeeded, and the effects of the earlier steps stay.
C14_IssueStepsInOrder == []C14_State /\ [][C14_NoRollback]_vars

\* the certificate and key were copied, then nginx -t failed: no reload,
\* no renewal job, the copies stay
C14_Witness ==
    /\ st.pc = "done" /\ st.result = "nginx -t failed"
    /\ Succeeded("copy cert") /\ Succeeded("copy key")
    /\ st.fx[Len(st.fx)] = [cap |-> "-", act |-> "nginx -t", status |-> "exit_nonzero"]
    /\ "crontab" \in args.path_cmds

----------------------------------------------------------------------------
(* The renewal job: SpecCron.  The job table of the user is a text: its    *)
(* lines, and whether the last line ends with a line break.  A line is one *)
(* of a few kinds; st.table is the table, st.table0 the table before the   *)
(* first run.                                                              *)

MaxJobs == 2
MaxRuns == 2

\* the line format!("0 0 1,16 * * /bin/sh {} --cron --home {} >/dev/null 2>&1")
CronLine == "renew"

\* a line that holds the text of CronLine after a "#"
CommentedCronLine == "# renew"

\* a job whose bytes are not valid UTF-8, and what from_utf8_lossy makes of it
RawJob == "job \\xff"
LossyJob == "job U+FFFD"

LineKinds == {"job a", "job b", CronLine, CommentedCronLine, RawJob}

Tables ==
    {[lines |-> l, terminated |-> t] :
        l \in SeqsUpTo(LineKinds, MaxJobs), t \in BOOLEAN}
    \ {[lines |-> <<>>, terminated |-> TRUE]}

\* String::from_utf8_lossy(&existing.stdout)
from_utf8_lossy(table) ==
    [table EXCEPT !.lines = [i \in DOMAIN @ |-> IF @[i] = RawJob THEN LossyJob
                                                 ELSE @[i]]]

\* content.contains(&cron_line): the text occurs somewhere in the content
contains_cron_line(content) ==
    \E i \in DOMAIN content.lines :
        content.lines[i] \in {CronLine, CommentedCronLine}

\* lines 703-707: end the last line if need be, push the line and "\n"
push_cron_line(content) ==
    [lines |-> (IF content.lines = <<>> THEN <<"">> ELSE content.lines)
                   \o <<CronLine>>,
     terminated |-> TRUE]

InitCron ==
    /\ \E t \in Tables, dry \in BOOLEAN :
          st = [pc |-> "probe", dry_run |-> dry, result |-> "running",
                table |-> t, table0 |-> t, content |-> t, runs |-> 1,
                writes |-> 0]
    /\ args \in {[command |-> "issue-cert", path_cmds |-> p] :
                    p \in {{}, {"crontab"}}}
    /\ env_overrides = NoOverrides
    /\ process_env = NoOverrides
    /\ rs = IdleRs
    /\ cli = IdleCli
    /\ tp = IdleTp

\* lines 679-694: no crontab on the PATH, or a dry run: return Ok
CronProbe ==
    /\ st.pc = "probe"
    /\ st' = IF ~command_exists("crontab") \/ st.dry_run
             THEN [st EXCEPT !.pc = "returned", !.result = "ok"]
             ELSE [st EXCEPT !.pc = "list"]
    /\ UNCHANGED inputs

\* lines 696-700: crontab -l, its exit status ignored
CronList ==
    /\ st.pc = "list"
    /\ \E ext \in {"ok", "spawn_failed"} :
          st' = IF ext = "spawn_failed"
                THEN [st EXCEPT !.pc = "returned",
                                !.result = "Failed to read crontab"]
                ELSE [st EXCEPT !.pc = "check",
                                !.content = from_utf8_lossy(st.table)]
    /\ UNCHANGED inputs

\* lines 701-708
CronCheck ==
    /\ st.pc = "check"
    /\ st' = IF contains_cron_line(st.content)
             THEN [st EXCEPT !.pc = "returned", !.result = "ok"]
             ELSE [st EXCEPT !.pc = "write",
                             !.content = push_cron_line(st.content)]
    /\ UNCHANGED inputs

\* lines 710-729: crontab - replaces the table by what it reads
CronWrite ==
    /\ st.pc = "write"
    /\ \E ext \in {"ok", "spawn_failed", "exit_nonzero"} :
          st' = IF ext = "spawn_failed"
                THEN [st EXCEPT !.pc = "returned",
                                !.result = "Failed to write crontab"]
                ELSE IF ext = "exit_nonzero"
                THEN [st EXCEPT !.pc = "returned",
                                !.result = "Failed to update crontab"]
                ELSE [st EXCEPT !.pc = "returned", !.result = "ok",
                                !.table = st.content, !.writes = @ + 1]
    /\ UNCHANGED inputs

\* the next issue-cert run, with the same acme_bin and acme_home, reaches
\* setup_acme_renew_cron
CronRunAgain ==
    /\ st.pc = "returned"
    /\ st.result = "ok"
    /\ st.runs < MaxRuns
    /\ st' = [st EXCEPT !.pc = "probe", !.result = "running", !.runs = @ + 1]
    /\ UNCHANGED inputs

NextCron ==
    \/ CronProbe
    \/ CronList
    \/ CronCheck
    \/ CronWrite
    \/ CronRunAgain

SpecCron == InitCron /\ [][NextCron]_vars

----------------------------------------------------------------------------
(* Claims about the renewal job *)

\* how many lines of a table are the line x
Count(x, lines) == Cardinality({i \in DOMAIN lines : lines[i] = x})

\* a real run registered (or found) the job and returned Ok
Registered ==
    /\ st.pc = "returned" /\ st.result = "ok"
    /\ ~st.dry_run /\ command_exists("crontab")

\* C15: registering the renewal job is idempotent.  Starting from a job
\* table that holds the renewal line at most once, after any number of
\* successful real runs the table holds the renewal line exactly once,
\* every line it held before is still there, unchanged and in place, and a
\* table that already held the line has not been rewritten.
C15_RenewalJobIdempotent ==
    (Registered /\ Count(CronLine, st.table0.lines) <= 1) =>
        /\ Count(CronLine, st.table.lines) = 1
        /\ IsPrefix(st.table0.lines, st.table.lines)
        /\ st.writes <= 1
        /\ Count(CronLine, st.table0.lines) = 1
              => st.table = st.table0 /\ st.writes = 0

----------------------------------------------------------------------------
(* print-params: SpecParams *)

\* rows of print_params_table, in the order of the source
PARAM_ROWS ==
    <<
      <<"--env KEY=VALUE", "Override environment values (repeatable)">>,
      <<"setup", "Install zsh/cron/nginx if missing">>,
      <<"--install-zsh", "Install zsh if missing">>,
      <<"--install-cron", "Install cron if missing">>,
      <<"--install-nginx", "Install nginx if missing">>,
      <<"--dry-run", "Simulate actions without changes">>,
      <<"issue-cert", "Issue certs and optionally reload nginx">>,
      <<"--cf-token", "Cloudflare token">>,
      <<"CF_TOKEN", "Cloudflare token (env)">>,
      <<"--cf-account-id", "Cloudflare account ID">>,
      <<"CF_ACCOUNT_ID", "Cloudflare account ID (env)">>,
      <<"--cf-zone-id", "Cloudflare zone ID">>,
      <<"CF_ZONE_ID", "Cloudflare zone ID (env)">>,
      <<"--domain", "Primary domain">>,
      <<"DOMAIN", "Primary domain (env)">>,
      <<"--wildcard-domain", "Wildcard domain">>,
      <<"WILDCARD_DOMAIN", "Wildcard domain (env)">>,
      <<"--acme-bin", "acme.sh path">>,
      <<"ACME_BIN", "acme.sh path (env)">>,
      <<"--acme-home", "acme home directory">>,
      <<"ACME_HOME", "acme home directory (env)">>,
      <<"--cert-dir", "Certificate directory (absolute path)">>,
      <<"CERT_DIR", "Certificate directory (env)">>,
      <<"--cert-dir-name", "Certificate directory name">>,
      <<"CERT_DIR_NAME", "Certificate directory name (env)">>,
      <<"--cert-output-path", "Certificate output path">>,
      <<"CERT_OUTPUT_PATH", "Certificate output path (env)">>,
      <<"--key-output-path", "Key output path">>,
      <<"KEY_OUTPUT_PATH", "Key output path (env)">>,
      <<"--nginx-bin", "nginx binary">>,
      <<"NGINX_BIN", "nginx binary (env)">>,
      <<"--reload-nginx", "Reload nginx after issuance">>,
      <<"--dry-run", "Simulate actions without changes">>,
      <<"write-nginx-default", "Write default nginx 444 config">>,
      <<"--cert-path", "Nginx cert path (absolute)">>,
      <<"NGINX_CERT_PATH", "Nginx cert path (env)">>,
      <<"--key-path", "Nginx key path (absolute)">>,
      <<"NGINX_KEY_PATH", "Nginx key path (env)">>,
      <<"--cert-dir-name", "Certificate directory name">>,
      <<"NGINX_CERT_DIR_NAME", "Certificate dir name (env)">>,
      <<"--domain", "Primary domain (used for default cert/key)">>,
      <<"DOMAIN", "Primary domain (env)">>,
      <<"--output-path", "Output path for default config">>,
      <<"NGINX_DEFAULT_OUTPUT", "Output path for default config (env)">>,
      <<"--dry-run", "Simulate actions without changes">>,
      <<"write-proxy-config", "Write reverse proxy config">>,
      <<"--proxy-domain", "Proxy domain">>,
      <<"PROXY_DOMAIN", "Proxy domain (env)">>,
      <<"--backend-url", "Backend URL">>,
      <<"BACKEND_URL", "Backend URL (env)">>,
      <<"--resolver", "DNS resolver (repeatable)">>,
      <<"RESOLVER", "DNS resolver list (env or interactive)">>,
      <<"--cert-path", "Nginx cert path (absolute)">>,
      <<"NGINX_CERT_PATH", "Nginx cert path (env)">>,
      <<"--key-path", "Nginx key path (absolute)">>,
      <<"NGINX_KEY_PATH", "Nginx key path (env)">>,
      <<"--cert-dir", "Certificate directory (absolute path)">>,
      <<"CERT_DIR", "Certificate directory (env)">>,
      <<"--cert-dir-name", "Certificate directory name">>,
      <<"CERT_DIR_NAME", "Certificate directory name (env)">>,
      <<"--output-dir", "Proxy config output dir">>,
      <<"PROXY_OUTPUT_DIR", "Proxy config output dir (env)">>,
      <<"--dry-run", "Simulate actions without changes">>
    >>

HeaderName == "Parameter/ENV"
HeaderDesc == "Description"

Column(rows, c) == [i \in DOMAIN rows |-> rows[i][c]]

\* .len() of the first string only
max_len_of_first(strings) ==
    IF strings = <<>> THEN 0 ELSE Len(strings[1])

\* strings.iter().map(|s| s.len()).max().unwrap_or(0)
RECURSIVE max_len(_)
max_len(strings) ==
    IF strings = <<>> THEN 0
    ELSE LET rest == max_len(Tail(strings))
         IN  IF Len(strings[1]) > rest THEN Len(strings[1]) ELSE rest

\* a.max(b)
MaxOf(a, b) == IF a > b THEN a ELSE b

name_width == MaxOf(max_len(Column(PARAM_ROWS, 1)), Len(HeaderName))
desc_width == MaxOf(max_len(Column(PARAM_ROWS, 2)), Len(HeaderDesc))

\* c.repeat(n)
RECURSIVE Repeat(_, _)
Repeat(c, n) == IF n = 0 THEN "" ELSE c \o Repeat(c, n - 1)

\* {:width$} of a string: padded with spaces on the right, never cut
Pad(s, width) == IF Len(s) >= width THEN s ELSE s \o Repeat(" ", width - Len(s))

\* a printed line, as the pieces the format string puts together
border == <<"+-", Repeat("-", name_width), "-+-", Repeat("-", desc_width), "-+">>
format_row(name, desc) ==
    <<"| ", Pad(name, name_width), " | ", Pad(desc, desc_width), " |">>

\* print-params reads neither the overrides nor the environment; they are
\* drawn because the command line and the environment can hold anything
ParamsOverrides ==
    {[k \in {"DOMAIN", "RESOLVER", "CERT_DIR"} |->
         IF k = "DOMAIN" THEN d ELSE IF k = "RESOLVER" THEN r ELSE c] :
        d \in {None, Some(FooCom)}, r \in {None, Some(RESOLVER_GOOGLE)},
        c \in {None, Some(<<"a">>)}}
ParamsEnvs == 
    {[k \in {"DOMAIN", "RESOLVER"} |-> IF k = "DOMAIN" THEN d ELSE r] :
        d \in {None, Some(FooCom)}, r \in {None, Some(RESOLVER_ALI)}}

InitParams ==
    /\ args = [command |-> "print-params"]
    /\ st = [pc |-> "top", next_row |-> 1, out |-> <<>>, result |-> "running"]
    /\ env_overrides \in ParamsOverrides
    /\ process_env \in ParamsEnvs
    /\ rs = IdleRs
    /\ cli = IdleCli
    /\ tp = IdleTp

\* the border, the header line and the border under it
ParamsTop ==
    /\ st.pc = "top"
    /\ st' = [st EXCEPT !.pc = "rows",
                        !.out = <<border, format_row(HeaderName, HeaderDesc),
                                  border>>]
    /\ UNCHANGED inputs

\* one turn of for (name, desc) in rows
ParamsRow ==
    /\ st.pc = "rows"
    /\ st.next_row <= Len(PARAM_ROWS)
    /\ st' = [st EXCEPT
                !.next_row = @ + 1,
                !.out = Append(@, format_row(PARAM_ROWS[st.next_row][1],
                                             PARAM_ROWS[st.next_row][2]))]
    /\ UNCHANGED inputs

\* the closing border and Ok(())
ParamsBottom ==
    /\ st.pc = "rows"
    /\ st.next_row > Len(PARAM_ROWS)
    /\ st' = [st EXCEPT !.pc = "returned", !.result = "ok",
                        !.out = Append(@, border)]
    /\ UNCHANGED inputs

NextParams == ParamsTop \/ ParamsRow \/ ParamsBottom

SpecParams == InitParams /\ [][NextParams]_vars

----------------------------------------------------------------------------
(* Claims about print-params *)

\* the strings of one column of the table: the header and the row entries
ColumnStrings(c) ==
    {IF c = 1 THEN HeaderName ELSE HeaderDesc}
        \cup {PARAM_ROWS[i][c] : i \in DOMAIN PARAM_ROWS}

\* the longest string of column c has n characters
IsLongest(c, n) ==
    /\ \A s \in ColumnStrings(c) : Len(s) <= n
    /\ \E s \in ColumnStrings(c) : Len(s) = n

\* line is text followed by spaces only, n characters in all
Shows(cell, text, n) ==
    /\ Len(cell) = n
    /\ Len(text) <= n
    /\ cell = text \o Repeat(" ", n - Len(text))

\* the lines printed so far are the first lines of the table: line 2 is
\* the header, lines 4.. are the rows of PARAM_ROWS in their order
ParamsLine(i) ==
    IF i = 2 THEN <<HeaderName, HeaderDesc>> ELSE PARAM_ROWS[i - 3]
IsBorderLine(i) == i \in {1, 3, Len(PARAM_ROWS) + 4}

\* C16: print-params prints the rows of the fixed parameter list in the
\* order of the list, whatever the overrides and the environment hold, and
\* each of the two columns is as wide as the longest string in it: every
\* cell of a column has that width, its text followed by spaces
C16_ParamsTable ==
    args.command = "print-params" =>
        /\ Len(st.out) <= Len(PARAM_ROWS) + 4
        /\ st.pc = "returned" => Len(st.out) = Len(PARAM_ROWS) + 4
        /\ \A i \in DOMAIN st.out :
              /\ IsLongest(1, Len(st.out[i][2]))
              /\ IsLongest(2, Len(st.out[i][4]))
              /\ IF IsBorderLine(i)
                 THEN /\ st.out[i][2] = Repeat("-", Len(st.out[i][2]))
                      /\ st.out[i][4] = Repeat("-", Len(st.out[i][4]))
                 ELSE /\ Shows(st.out[i][2], ParamsLine(i)[1], Len(st.out[i][2]))
                      /\ Shows(st.out[i][4], ParamsLine(i)[2], Len(st.out[i][4]))

C16_Witness ==
    /\ args.command = "print-params"
    /\ st.pc = "returned"
    /\ Len(st.out) = Len(PARAM_ROWS) + 4
    /\ env_overrides["DOMAIN"] = Some(FooCom)

----------------------------------------------------------------------------
(* Claims about the prompts of the resolvers *)

\* the call has no explicit value
NoExplicit == rs.cli_value = None /\ rs.cli_values = <<>>

\* some alias key of the call has a non-blank value in one of the sources
SomeSourceUsable ==
    \E i \in DOMAIN rs.env_keys :
        Usable(env_overrides[rs.env_keys[i]]) \/ Usable(process_env[rs.env_keys[i]])

\* the call has reached its prompt
AtPrompt == NoExplicit /\ ~SomeSourceUsable

\* the line typed at the first prompt is blank
BlankAnswer == rs.read1.kind = "line" /\ OnlySpaces(rs.read1.line)

\* C17: resolve_value at its prompt prompts once; a blank response comes
\* back as a successful blank result (the plain prompt: the empty string),
\* no error and no second prompt.
C17_BlankPromptAccepted ==
    (IsSome(rs.ret) /\ rs.fn = "resolve_value" /\ AtPrompt) =>
        LET r == Unwrap(rs.ret)
        IN  /\ r.prompts = 1
            /\ BlankAnswer => r.ok /\ OnlySpaces(r.val)
            /\ (BlankAnswer /\ ~rs.sensitive) => r.val = <<>>

\* a required value resolved to the empty string from a line of spaces
C17_Witness ==
    /\ IsSome(rs.ret)
    /\ rs.fn = "resolve_value" /\ AtPrompt /\ ~rs.sensitive
    /\ rs.read1 = Line(<<" ">>)
    /\ Unwrap(rs.ret).ok
    /\ Unwrap(rs.ret).val = <<>>
    /\ Unwrap(rs.ret).prompts = 1

\* the read behind the last prompt of a result failed
PromptReadFailed(r) ==
    \/ r.prompts = 1 /\ rs.read1.kind = "error"
    \/ r.prompts = 2 /\ rs.read2.kind = "error"

\* C18: a resolver returns an error only when the read of a prompt it
\* issued failed.  A blank prompt response gives no value from the optional
\* variant and the default from the path and the name-with-default
\* variants, and a call that has an explicit value or a non-blank value in
\* the OverrideMap or the environment never fails.
C18_ErrorsOnlyFromPrompt ==
    IsSome(rs.ret) =>
        LET r == Unwrap(rs.ret)
        IN  /\ ~r.ok => PromptReadFailed(r)
            /\ (rs.fn = "resolve_optional_value" /\ AtPrompt /\ BlankAnswer) =>
                   r.ok /\ r.val = None
            /\ (rs.fn \in {"resolve_path", "resolve_name_with_default"}
                    /\ AtPrompt /\ BlankAnswer) =>
                   r.ok /\ r.val = rs.default
            /\ (Usable(rs.cli_value) \/ rs.cli_values # <<>> \/ SomeSourceUsable)
                   => r.ok

\* a blank answer to the prompt of the optional variant, with blank entries
\* in both sources
C18_Witness ==
    /\ IsSome(rs.ret)
    /\ rs.fn = "resolve_optional_value" /\ AtPrompt
    /\ env_overrides["K1"] = Some(<<" ">>)
    /\ process_env["K1"] = Some(<<" ">>)
    /\ rs.read1 = Line(<<" ">>)
    /\ Unwrap(rs.ret).ok
    /\ Unwrap(rs.ret).val = None

\* the aliases of the call that have a non-blank value in a source
UsableAliases ==
    {i \in DOMAIN rs.env_keys :
        Usable(env_overrides[rs.env_keys[i]]) \/ Usable(process_env[rs.env_keys[i]])}

\* the value of alias i: its OverrideMap entry before its environment value
AliasValue(i) ==
    IF Usable(env_overrides[rs.env_keys[i]])
    THEN Unwrap(env_overrides[rs.env_keys[i]])
    ELSE Unwrap(process_env[rs.env_keys[i]])

\* the non-blank OverrideMap entries of the aliases of the call
OverrideValues ==
    {Unwrap(env_overrides[rs.env_keys[i]]) :
        i \in {j \in DOMAIN rs.env_keys : Usable(env_overrides[rs.env_keys[j]])}}

\* C19: resolve_name_with_default with no explicit value returns the
\* value of the first alias, in the order given, that has a non-blank value
\* (its OverrideMap entry before its environment value); it prompts only
\* when no alias has one, and a blank answer then gives the default; and
\* when some alias has a non-blank OverrideMap entry the result is an
\* OverrideMap entry, not an environment value.
C19_FirstAliasAndOverridesFirst ==
    (IsSome(rs.ret) /\ rs.fn = "resolve_name_with_default" /\ rs.cli_value = None) =>
        LET r == Unwrap(rs.ret)
        IN  /\ \A i \in UsableAliases :
                  (\A j \in UsableAliases : i <= j) =>
                      r.ok /\ r.prompts = 0 /\ r.val = AliasValue(i)
            /\ UsableAliases = {} => r.prompts = 1
            /\ (UsableAliases = {} /\ BlankAnswer) => r.ok /\ r.val = rs.default
            /\ OverrideValues # {} => r.ok /\ r.val \in OverrideValues

\* the alias clauses of C19 alone: first alias with a value, else the prompt
C19_FirstAliasWins ==
    (IsSome(rs.ret) /\ rs.fn = "resolve_name_with_default" /\ rs.cli_value = None) =>
        LET r == Unwrap(rs.ret)
        IN  /\ \A i \in UsableAliases :
                  (\A j \in UsableAliases : i <= j) =>
                      r.ok /\ r.prompts = 0 /\ r.val = AliasValue(i)
            /\ UsableAliases = {} => r.prompts = 1
            /\ (UsableAliases = {} /\ BlankAnswer) => r.ok /\ r.val = rs.default

\* what is typed at the menu, without surrounding whitespace; nothing
\* after a timeout
MenuChoice ==
    IF rs.read1.kind = "line" THEN Trim(rs.read1.line) ELSE <<>>

ProviderOf(choice) ==
    IF choice = <<"1">> THEN RESOLVER_CLOUDFLARE
    ELSE IF choice = <<"2">> THEN RESOLVER_TENCENT
    ELSE IF choice = <<"3">> THEN RESOLVER_ALI
    ELSE RESOLVER_GOOGLE

\* C20: at the resolver menu the choices 1 to 4 give the resolver string
\* of their provider after one prompt; choice 5 issues one more prompt, a
\* plain read that cannot time out, and a non-blank answer to it is the
\* result (as the prompt returns it, without surrounding whitespace); an
\* empty response, a timeout, an unrecognised choice and a blank custom
\* answer give the caller's default and no error.
C20_ResolverMenu ==
    (IsSome(rs.ret) /\ rs.fn = "resolve_resolvers" /\ AtPrompt) =>
        LET r == Unwrap(rs.ret)
        IN  /\ MenuChoice \in {<<"1">>, <<"2">>, <<"3">>, <<"4">>} =>
                   r.ok /\ r.prompts = 1 /\ r.val = ProviderOf(MenuChoice)
            /\ MenuChoice = <<"5">> =>
                   /\ r.prompts = 2
                   /\ rs.read2.kind # "timeout"
                   /\ (rs.read2.kind = "line" /\ ~OnlySpaces(rs.read2.line)) =>
                          r.ok /\ r.val = Trim(rs.read2.line)
                   /\ (rs.read2.kind = "line" /\ OnlySpaces(rs.read2.line)) =>
                          r.ok /\ r.val = rs.default
            /\ MenuChoice \notin
                   {<<"1">>, <<"2">>, <<"3">>, <<"4">>, <<"5">>} =>
                   r.ok /\ r.prompts = 1 /\ r.val = rs.default

\* an unrecognised choice answered with the default
C20_Witness ==
    /\ IsSome(rs.ret)
    /\ rs.fn = "resolve_resolvers" /\ AtPrompt
    /\ rs.read1 = Line(<<"9">>)
    /\ Unwrap(rs.ret).ok
    /\ Unwrap(rs.ret).val = rs.default

----------------------------------------------------------------------------
(* The input stream shared by the prompts of one command: SpecStdin.  The  *)
(* reader thread of a timed prompt and the plain prompts of the main       *)
(* thread all call io::stdin().read_line, which holds the lock of the one  *)
(* process-wide stdin for as long as the read blocks and takes the next    *)
(* line of the stream.                                                     *)

\* lines typed in the course of one command
MaxTyped == 3

ScriptLines == {<<>>, <<"5">>, <<"mine">>}

CertDirNameKeys == <<"NGINX_CERT_DIR_NAME", "CERT_DIR_NAME">>
ProxyOutputDir == <<"/", "etc", "/", "nginx", "/", "conf.d", "/", "proxy">>

\* setup with zsh missing, and write-proxy-config from its resolver menu
\* on, with no certificate pair given, so that the directory name and the
\* output directory are prompted for unless their flags are given
StdinArgs ==
    {[command |-> "setup", caller |-> "setup_system", dry_run |-> FALSE,
      resolvers |-> <<>>, cert_dir_name |-> None, output_dir |-> None,
      script |-> sc] : sc \in [1..MaxTyped -> ScriptLines]}
    \cup
    {[command |-> "write-proxy-config", caller |-> "write_proxy_config",
      dry_run |-> d, resolvers |-> <<>>, cert_dir_name |-> n, output_dir |-> o,
      script |-> sc] :
        d \in BOOLEAN, n \in {None, Some(<<"a">>)},
        o \in {None, Some(ProxyOutputDir)}, sc \in [1..MaxTyped -> ScriptLines]}

InitStdin ==
    /\ args \in StdinArgs
    /\ env_overrides = NoOverrides
    /\ process_env = NoOverrides
    /\ tp = [phase |-> "idle", clock |-> 0, reader |-> "unborn", readers |-> 0,
             buf |-> <<>>, chan |-> <<>>, outcome |-> None, result |-> None,
             typed |-> 0, consumed |-> 0, issued_at |-> 0, answers |-> <<>>,
             failed |-> FALSE]
    /\ rs = IdleRs
    /\ cli = IdleCli
    /\ st = IdleSt

\* the phase after the one named: the plain prompts of write_proxy_config
\* that follow the resolver menu, each skipped when its resolver finds a
\* value without prompting
PromptsFor(phase) ==
    IF phase = "cert_dir_name"
    THEN resolve_cert_dir(None, args.cert_dir_name, env_overrides,
                          CertDirNameKeys, <<"custom">>, Line(<<>>)).prompts > 0
    ELSE resolve_path(args.output_dir, env_overrides, "PROXY_OUTPUT_DIR",
                      ProxyOutputDir, Line(<<>>)).prompts > 0

PhaseAfter(phase) ==
    IF args.caller = "setup_system" THEN "returned"
    ELSE IF phase \in {"waiting", "custom"} /\ PromptsFor("cert_dir_name")
         THEN "cert_dir_name"
    ELSE IF phase \in {"waiting", "custom", "cert_dir_name"}
            /\ PromptsFor("output_dir")
         THEN "output_dir"
    ELSE "returned"

\* a plain prompt reads: it waits for the lock of stdin, which the reader
\* holds while it is blocked, and takes the next line of the stream
PlainRead(phase) ==
    /\ tp.phase = phase
    /\ tp.reader # "blocked"
    /\ tp.consumed < tp.typed

Answered(phase) ==
    Append(tp.answers, [prompt |-> phase, issued_at |-> tp.issued_at,
                        got |-> tp.consumed + 1])

\* confirm_with_timeout, select_resolver_with_timeout: the channel is
\* created, the reader spawned, and the caller waits in recv_timeout
StdinCall ==
    /\ tp.phase = "idle"
    /\ tp' = [tp EXCEPT !.phase = "waiting", !.reader = "blocked",
                        !.readers = @ + 1]
    /\ UNCHANGED <<env_overrides, process_env, rs, cli, args, st>>

\* the user types the next line while no read of stdin is blocked: the
\* line waits on the stream
StdinType ==
    /\ tp.typed < MaxTyped
    /\ tp.reader # "blocked"
    /\ tp' = [tp EXCEPT !.typed = @ + 1]
    /\ UNCHANGED <<env_overrides, process_env, rs, cli, args, st>>

\* the user types the next line while the reader is blocked in read_line:
\* the read returns with that line
StdinReaderRead ==
    /\ tp.typed < MaxTyped
    /\ tp.reader = "blocked"
    /\ tp' = [tp EXCEPT !.reader = "read", !.typed = @ + 1,
                        !.consumed = @ + 1,
                        !.buf = args.script[tp.consumed + 1]]
    /\ UNCHANGED <<env_overrides, process_env, rs, cli, args, st>>

\* tx.send(input): delivered while the receiver waits, else an error that
\* the reader ignores
StdinReaderSend ==
    /\ tp.reader = "read"
    /\ tp' = [tp EXCEPT !.reader = "exited",
                        !.chan = IF tp.phase = "waiting" THEN <<tp.buf>> ELSE @]
    /\ UNCHANGED <<env_overrides, process_env, rs, cli, args, st>>

\* a second passes while the caller waits
StdinTick ==
    /\ tp.phase = "waiting"
    /\ tp.clock < TimeoutOf(args.caller)
    /\ tp' = [tp EXCEPT !.clock = @ + 1]
    /\ UNCHANGED <<env_overrides, process_env, rs, cli, args, st>>

\* recv_timeout returns Ok(input)
StdinRecv ==
    /\ tp.phase = "waiting"
    /\ tp.chan # <<>>
    /\ tp' = [tp EXCEPT !.phase = "received", !.outcome = Some(Line(tp.chan[1])),
                        !.chan = <<>>]
    /\ UNCHANGED <<env_overrides, process_env, rs, cli, args, st>>

\* recv_timeout returns Err(Timeout); the receiver is dropped on return
StdinTimeout ==
    /\ tp.phase = "waiting"
    /\ tp.chan = <<>>
    /\ tp.clock = TimeoutOf(args.caller)
    /\ tp' = [tp EXCEPT !.phase = "received", !.outcome = Some(TimedOut)]
    /\ UNCHANGED <<env_overrides, process_env, rs, cli, args, st>>

\* the rest of the timed prompt: the custom prompt after choice 5, else the
\* result and the next prompt of the command
StdinReturn ==
    /\ tp.phase = "received"
    /\ tp' = IF AsksCustom
             THEN [tp EXCEPT !.phase = "custom", !.issued_at = tp.consumed]
             ELSE LET r == TimedResult(Unwrap(tp.outcome), Line(<<>>))
                  IN  [tp EXCEPT !.phase = PhaseAfter("waiting"),
                                 !.result = Some(r),
                                 !.failed = ~r.ok,
                                 !.issued_at = tp.consumed]
    /\ UNCHANGED <<env_overrides, process_env, rs, cli, args, st>>

\* prompt_value("Custom resolver (space-separated)") reads
StdinCustom ==
    /\ PlainRead("custom")
    /\ LET r == TimedResult(Unwrap(tp.outcome),
                            Line(args.script[tp.consumed + 1]))
       IN  tp' = [tp EXCEPT !.phase = PhaseAfter("custom"),
                            !.result = Some(r),
                            !.failed = ~r.ok,
                            !.consumed = @ + 1,
                            !.answers = Answered("custom"),
                            !.issued_at = tp.consumed + 1]
    /\ UNCHANGED <<env_overrides, process_env, rs, cli, args, st>>

\* the prompt of resolve_name_with_default under resolve_cert_dir reads
StdinCertDirName ==
    /\ PlainRead("cert_dir_name")
    /\ LET r == resolve_cert_dir(None, args.cert_dir_name, env_overrides,
                                 CertDirNameKeys, <<"custom">>,
                                 Line(args.script[tp.consumed + 1]))
       IN  tp' = [tp EXCEPT !.phase = PhaseAfter("cert_dir_name"),
                            !.failed = ~r.ok,
                            !.consumed = @ + 1,
                            !.answers = Answered("cert_dir_name"),
                            !.issued_at = tp.consumed + 1]
    /\ UNCHANGED <<env_overrides, process_env, rs, cli, args, st>>

\* the prompt of resolve_path for the output directory reads
StdinOutputDir ==
    /\ PlainRead("output_dir")
    /\ LET r == resolve_path(args.output_dir, env_overrides, "PROXY_OUTPUT_DIR",
                             ProxyOutputDir, Line(args.script[tp.consumed + 1]))
       IN  tp' = [tp EXCEPT !.phase = "returned",
                            !.failed = ~r.ok,
                            !.consumed = @ + 1,
                            !.answers = Answered("output_dir"),
                            !.issued_at = tp.consumed + 1]
    /\ UNCHANGED <<env_overrides, process_env, rs, cli, args, st>>

NextStdin ==
    \/ StdinCall
    \/ StdinType
    \/ StdinReaderRead
    \/ StdinReaderSend
    \/ StdinTick
    \/ StdinRecv
    \/ StdinTimeout
    \/ StdinReturn
    \/ StdinCustom
    \/ StdinCertDirName
    \/ StdinOutputDir

SpecStdin == InitStdin /\ [][NextStdin]_vars

----------------------------------------------------------------------------
(* Claims about the reader of a timed prompt *)

\* the timed prompt has returned after its receive timed out
AfterTimeout ==
    tp.outcome = Some(TimedOut) /\ tp.phase \notin {"waiting", "received"}

\* what the timed prompt returns on a timeout
TimeoutDefault ==
    IF args.caller = "setup_system" THEN FALSE ELSE DefaultOf(args.caller)

\* C21: the reader of a timed prompt touches the main flow only through
\* its channel.  One reader at most is spawned for the timed prompt; once
\* the prompt has timed out its result is the default and stays the default
\* whatever the reader reads and sends later, and the run does not fail;
\* and every plain prompt of the command receives the line that was next on
\* the input stream when the prompt was issued.
C21_ReaderIsolated ==
    /\ tp.readers <= 1
    /\ AfterTimeout =>
          /\ Unwrap(tp.result).ok
          /\ Unwrap(tp.result).val = TimeoutDefault
          /\ ~tp.failed
    /\ \A i \in DOMAIN tp.answers :
          tp.answers[i].got = tp.answers[i].issued_at + 1

\* the first two clauses alone
C21_LateLineIgnored ==
    /\ tp.readers <= 1
    /\ AfterTimeout =>
          /\ Unwrap(tp.result).ok
          /\ Unwrap(tp.result).val = TimeoutDefault
          /\ ~tp.failed

\* a line read and sent by the reader after the timeout
LateLineSeen ==
    AfterTimeout /\ tp.reader = "exited" /\ tp.consumed > 0

----------------------------------------------------------------------------
(* Claims about the output paths of issue-cert *)

\* a source gives the output path: the flag, the OverrideMap or the
\* environment
OutputGiven(flag, key) ==
    IsSome(flag) \/ UsableAt(env_overrides, key) \/ UsableAt(process_env, key)

HalfOutputPair ==
    OutputGiven(args.cert_output_path, "CERT_OUTPUT_PATH")
        # OutputGiven(args.key_output_path, "KEY_OUTPUT_PATH")

PairError == "Both CERT_OUTPUT_PATH and KEY_OUTPUT_PATH must be set together"

\* C22: issue-cert with exactly one of the certificate output path and the
\* key output path given by a flag, the OverrideMap or the environment ends
\* in an error and performs no mutating step on the way: the cache
\* directory is not removed, the ACME client not run, nothing is copied,
\* nginx is not reloaded and no renewal job is registered; once the other
\* parameters are resolved the error is the one of the pair.
C22_HalfOutputPairFailsEarly ==
    (args.command = "issue-cert" /\ HalfOutputPair) =>
        /\ st.fx = <<>>
        /\ st.intents = <<>>
        /\ st.pc \notin {"ic_nginx_bin", "ic_rm_cache", "ic_acme", "ic_mkdir",
                         "ic_copy_cert", "ic_copy_key", "ic_nginx", "ic_reload",
                         "ic_cron"}
        /\ st.pc = "done" => st.result # "ok"
        /\ (st.pc = "done" /\ IsSome(st.loc["cert_dir"])) => st.result = PairError

\* a real run as root stopped by a key output path that only the
\* environment gives
C22_Witness ==
    /\ args.command = "issue-cert"
    /\ args.uid = "0" /\ ~st.dry_run
    /\ args.cert_output_path = None /\ args.key_output_path = None
    /\ ~UsableAt(env_overrides, "CERT_OUTPUT_PATH")
    /\ UsableAt(process_env, "KEY_OUTPUT_PATH")
    /\ st.pc = "done" /\ st.result = PairError
    /\ st.fx = <<>>

============================================================================
